---- MODULE Spec2Model ----
(***************************************************************************)
(* The backtesting engine of alpharius (alpharius/trade/backtesting.py):   *)
(* the day loop, the intraday prefetch through the thread pool, the        *)
(* 5-minute interval loop and the resolution of the processors' actions    *)
(* against the cash/positions ledger.                                      *)
(*                                                                         *)
(* Numbers.  The engine computes with floats.  The model computes with     *)
(* exact fractions <<n, d>> (d > 0, lowest terms); rounding error is not   *)
(* modelled.  The three non-finite floats are kept, because the engine can *)
(* produce them: <<1, 0>> is +inf, <<-1, 0>> is -inf, <<0, 0>> is NaN.     *)
(***************************************************************************)
EXTENDS Integers, Sequences, FiniteSets, TLC

\* ------------------------------------------------------------------ bounds
MaxDays == 2
IntervalsPerDay == 2
MaxEmitted == 3
MaxFaults == 1

\* --------------------------------------------------------------- constants
\* alpharius/trade/common.py is not part of the sources at hand; the spec
\* names these constants without giving their values.  The spread is a
\* dyadic fraction so that every amount stays a small fraction.
BID_ASK_SPREAD_DEN == 8
SHORT_RESERVE_RATIO == 1
EPSILON_DEN == 10000000
_MAX_WORKERS == 20

Symbols == {"A", "B"}
Processors == {1, 2}

BUY_TO_OPEN == "BUY_TO_OPEN"
SELL_TO_OPEN == "SELL_TO_OPEN"
BUY_TO_CLOSE == "BUY_TO_CLOSE"
SELL_TO_CLOSE == "SELL_TO_CLOSE"
ActionTypes == {BUY_TO_OPEN, SELL_TO_OPEN, BUY_TO_CLOSE, SELL_TO_CLOSE}

FIVE_MIN == "FIVE_MIN"
CLOSE_TO_OPEN == "CLOSE_TO_OPEN"
CLOSE_TO_CLOSE == "CLOSE_TO_CLOSE"

\* ------------------------------------------------------------- arithmetic
Abs(x) == IF x < 0 THEN -x ELSE x

Sgn(x) == IF x < 0 THEN -1 ELSE IF x > 0 THEN 1 ELSE 0

RECURSIVE GCD(_, _)
GCD(a, b) == IF b = 0 THEN a ELSE GCD(b, a % b)

\* The fraction n/d in lowest terms with a positive denominator; a zero
\* denominator gives +inf, -inf or NaN by the sign of n.
Norm(n, d) ==
    IF d = 0 THEN <<Sgn(n), 0>>
    ELSE LET g == GCD(Abs(n), Abs(d))
         IN  <<Sgn(d) * (n \div g), Abs(d) \div g>>

Zero == <<0, 1>>
One == <<1, 1>>
NaN == <<0, 0>>
Int2R(k) == <<k, 1>>

IsNaN(a) == a = NaN
IsFinite(a) == a[2] # 0

RNeg(a) == <<-a[1], a[2]>>

RAbs(a) == <<Abs(a[1]), a[2]>>

RAdd(a, b) ==
    IF a[2] = 0 /\ b[2] = 0
    THEN IF a = b THEN a ELSE NaN
    ELSE Norm(a[1] * b[2] + b[1] * a[2], a[2] * b[2])

RSub(a, b) == RAdd(a, RNeg(b))

RMul(a, b) == Norm(a[1] * b[1], a[2] * b[2])

\* IEEE division: x/0 is an infinity or NaN.  Where the engine divides
\* plain Python floats the division by zero raises instead; the callers
\* decide that with DivRaises.
RDiv(a, b) ==
    IF IsNaN(a) \/ IsNaN(b) THEN NaN
    ELSE IF b[2] = 0
    THEN IF a[2] = 0 THEN NaN ELSE Zero
    ELSE Norm(a[1] * b[2] * (IF b[1] < 0 THEN -1 ELSE 1), a[2] * Abs(b[1]))

RLt(a, b) ==
    IF IsNaN(a) \/ IsNaN(b) THEN FALSE
    ELSE IF a[2] = 0 /\ b[2] = 0 THEN a[1] < b[1]
    ELSE a[1] * b[2] < b[1] * a[2]

RLe(a, b) == (~IsNaN(a)) /\ (~IsNaN(b)) /\ ~RLt(b, a)

\* Python's min(a, b): a unless b < a.
RMin(a, b) == IF RLt(b, a) THEN b ELSE a

\* abs(x) > EPSILON and abs(x) < EPSILON, EPSILON = 1/EPSILON_DEN, without
\* forming a product beyond TLC's integers.
GtEpsilon(x) ==
    IF IsNaN(x) THEN FALSE
    ELSE IF x[2] = 0 THEN TRUE
    ELSE Abs(x[1]) > x[2] \div EPSILON_DEN

LtEpsilon(x) ==
    IF x[2] = 0 THEN FALSE
    ELSE \/ Abs(x[1]) < x[2] \div EPSILON_DEN
         \/ Abs(x[1]) = x[2] \div EPSILON_DEN /\ x[2] % EPSILON_DEN > 0

BID_ASK_SPREAD == <<1, BID_ASK_SPREAD_DEN>>

\* ------------------------------------------------------------------ ledger
\* A Position is [symbol, qty, entry_price, entry_time]; the ledger is
\* [cash, positions, num_win, num_lose, executed, crashed], `executed` the
\* rows of the day's trade log and `crashed` set once an exception left the
\* resolver.

RECURSIVE IndexOf(_, _, _)
IndexOf(positions, symbol, ind) ==
    IF ind > Len(positions) THEN 0
    ELSE IF positions[ind].symbol = symbol THEN ind
    ELSE IndexOf(positions, symbol, ind + 1)

HasPosition(positions, symbol) == IndexOf(positions, symbol, 1) # 0

_get_current_position(positions, symbol) ==
    positions[IndexOf(positions, symbol, 1)]

\* Variant of _pop_current_position that leaves the list as it is.
_pop_nothing(positions, symbol) == positions

\* list.pop(ind) of the first Position of the symbol.
_pop_current_position(positions, symbol) ==
    LET ind == IndexOf(positions, symbol, 1)
    IN  IF ind = 0 THEN positions
        ELSE SubSeq(positions, 1, ind - 1) \o SubSeq(positions, ind + 1, Len(positions))

Position(symbol, qty, entry_price, entry_time) ==
    [symbol |-> symbol, qty |-> qty, entry_price |-> entry_price,
     entry_time |-> entry_time]

\* Variant of the guards that does not look at the sign of the Position.
CloseSkippedUnsigned(positions, action) == ~HasPosition(positions, action.symbol)

\* The two guards of _close_positions that drop a close action.
CloseSkipped(positions, action) ==
    \/ ~HasPosition(positions, action.symbol)
    \/ LET cp == _get_current_position(positions, action.symbol)
       IN  \/ action.type = BUY_TO_CLOSE /\ RLt(Zero, cp.qty)
           \/ action.type = SELL_TO_CLOSE /\ RLt(cp.qty, Zero)

\* Variant of the spread that favours the trader.
spread_in_favour(type) ==
    IF type = SELL_TO_CLOSE THEN RAdd(One, BID_ASK_SPREAD)
    ELSE RSub(One, BID_ASK_SPREAD)

SpreadAdjust(type) ==
    IF type = SELL_TO_CLOSE THEN RSub(One, BID_ASK_SPREAD)
    ELSE RAdd(One, BID_ASK_SPREAD)

\* A division of plain floats by zero raises ZeroDivisionError.
DivRaises(divisor, raises) == raises /\ divisor = Zero

\* Variant of the re-insertion that keeps the whole quantity.
ResidualPositionWhole(cp, new_qty) ==
    Position(cp.symbol, cp.qty, cp.entry_price, cp.entry_time)

\* What _close_positions puts back for the part of the Position not closed.
ResidualPosition(cp, new_qty) ==
    Position(cp.symbol, new_qty, cp.entry_price, cp.entry_time)

\* Variant of the realized return without the sign flip of a short exit.
profit_not_negated(type, ratio) == ratio

\* profit_pct of _close_positions, as a ratio: negated for BUY_TO_CLOSE.
realized_profit(type, ratio) == IF type = BUY_TO_CLOSE THEN RNeg(ratio) ELSE ratio

\* One iteration of the loop of _close_positions.
ClosePosition(L, action, now, raises) ==
    IF CloseSkipped(L.positions, action) THEN L
    ELSE
    LET cp == _get_current_position(L.positions, action.symbol)
        popped == _pop_current_position(L.positions, action.symbol)
        qty == RMul(cp.qty, action.percent)
        new_qty == RSub(cp.qty, qty)
        kept == IF GtEpsilon(new_qty)
                THEN Append(popped, ResidualPosition(cp, new_qty))
                ELSE popped
        adjusted_action_price == RMul(action.price, SpreadAdjust(action.type))
        new_cash == RAdd(L.cash, RMul(adjusted_action_price, qty))
        ratio == RSub(RDiv(adjusted_action_price, cp.entry_price), One)
        profit == realized_profit(action.type, ratio)
        win == RLt(Zero, profit)
        row == [symbol |-> action.symbol,
                side |-> IF action.type = SELL_TO_CLOSE THEN "long" ELSE "short",
                qty |-> qty, entry_price |-> cp.entry_price,
                exit_price |-> action.price, exit_time |-> now]
    IN  IF DivRaises(cp.entry_price, raises)
        THEN [L EXCEPT !.positions = kept, !.cash = new_cash, !.crashed = TRUE]
        ELSE [L EXCEPT !.positions = kept, !.cash = new_cash,
                       !.num_win = IF win THEN @ + 1 ELSE @,
                       !.num_lose = IF win THEN @ ELSE @ + 1,
                       !.executed = Append(@, row)]

RECURSIVE ShortReserve(_, _)
ShortReserve(positions, ind) ==
    IF ind > Len(positions) THEN Zero
    ELSE LET p == positions[ind]
             rest == ShortReserve(positions, ind + 1)
         IN  IF RLt(p.qty, Zero)
             THEN RAdd(RMul(RMul(p.entry_price, p.qty),
                            Int2R(1 + SHORT_RESERVE_RATIO)), rest)
             ELSE rest

\* The head of _open_positions: cash plus the (negative) reserve of the shorts.
TradableCash(cash, positions) == RAdd(cash, ShortReserve(positions, 1))

\* Variant of the allocation without the equal split.
CashToTradeUnsplit(tradable_cash, n_actions, percent) ==
    LET c == RMul(tradable_cash, percent)
    IN  IF LtEpsilon(c) THEN Zero ELSE c

CashToTrade(tradable_cash, n_actions, percent) ==
    LET c == RMin(RDiv(tradable_cash, Int2R(n_actions)), RMul(tradable_cash, percent))
    IN  IF LtEpsilon(c) THEN Zero ELSE c

\* One iteration of the loop of _open_positions.
OpenPosition(L, action, tradable_cash, n_actions, now, raises) ==
    LET cash_to_trade == CashToTrade(tradable_cash, n_actions, action.percent)
        q == RDiv(cash_to_trade, action.price)
        qty == IF action.type = SELL_TO_OPEN THEN RNeg(q) ELSE q
        has_old == HasPosition(L.positions, action.symbol)
        old == _get_current_position(L.positions, action.symbol)
        popped == _pop_current_position(L.positions, action.symbol)
        merged == has_old /\ old.qty # Zero
        entry_price ==
            IF merged
            THEN RDiv(RAdd(RMul(old.entry_price, old.qty), RMul(action.price, qty)),
                      RAdd(old.qty, qty))
            ELSE action.price
        new_qty == IF has_old THEN RAdd(qty, old.qty) ELSE qty
    IN  IF merged /\ DivRaises(RAdd(old.qty, qty), raises)
        THEN [L EXCEPT !.positions = popped, !.crashed = TRUE]
        ELSE [L EXCEPT !.positions = Append(popped, Position(action.symbol, new_qty,
                                                             entry_price, now)),
                       !.cash = RSub(@, RMul(action.price, qty))]

\* ------------------------------------------------------------------- state
VARIABLES
    pc,                \* where run() stands
    frequency,         \* processor -> its get_trading_frequency()
    hash_order,        \* the iteration order of a set of symbols in this process
    day,               \* index of the current day in _market_dates
    interval,          \* index of the current 5-minute interval of the day
    tasks,             \* symbol -> state of its prefetch future of the day
    intraday_datas,    \* symbol -> what the main thread collected for the day
    actions,           \* the batch returned by _process_data
    close_actions,     \* the close actions still to be applied
    open_actions,      \* the open actions still to be applied
    tradable_cash,     \* _open_positions' tradable_cash
    n_open,            \* _open_positions' len(actions)
    applied,           \* history: the actions of this interval that reached the ledger
    allocated,         \* history: cash_to_trade of each open action of this interval
    emitted,           \* history: number of actions emitted so far
    faults,            \* history: number of prefetch tasks that ended without bars
    cash,
    positions,
    num_win,
    num_lose,
    executed_actions,  \* the rows of the day's trade log
    daily_equity,
    shadow,            \* a second run of the engine on the same inputs
    calls,             \* history: the setup and teardown calls made on every processor
    sig,               \* what a SIGINT handler run has done
    no_daily_bar,      \* the <<symbol, day>> pairs _interday_data has no row for
    proc,              \* the private state of the ZScore and Abcd processors
    unit               \* a data preparation or resolution case and its result

ledger_vars == <<cash, positions, num_win, num_lose, executed_actions>>

vars == <<pc, frequency, hash_order, day, interval, tasks, intraday_datas, actions,
          close_actions, open_actions, tradable_cash, n_open, applied, allocated,
          emitted, faults, cash, positions, num_win, num_lose, executed_actions, daily_equity,
          shadow, calls, sig, no_daily_bar, proc, unit>>

Ledger == [cash |-> cash, positions |-> positions, num_win |-> num_win,
           num_lose |-> num_lose, executed |-> executed_actions, crashed |-> FALSE]

\* ------------------------------------------------------------------ inputs
Percents == {<<1, 2>>, One}

\* The processor sets the model runs with: a 5-minute processor with a
\* close-to-open one, and two close-to-close processors.
FrequencyConfigs ==
    {[p \in Processors |-> IF p = 1 THEN FIVE_MIN ELSE CLOSE_TO_OPEN],
     [p \in Processors |-> CLOSE_TO_CLOSE]}

HashOrders == {<<"A", "B">>, <<"B", "A">>}

\* The price history: the close of the symbol's bar of the given interval.
Close(symbol, d, i) ==
    LET tick == (d - 1) * IntervalsPerDay + i + (IF symbol = "A" THEN 0 ELSE 1)
    IN  IF tick % 2 = 1 THEN One ELSE Int2R(2)

\* The symbol's daily bar of the day closes where its last intraday bar does.
DayClose(symbol, d) == Close(symbol, d, IntervalsPerDay)

\* The daily bars a run may lack: none, those of B on the last day, those
\* of both symbols on the last day.
NoDailyBarCases ==
    {{}, {<<"B", MaxDays>>}, {<<"A", MaxDays>>, <<"B", MaxDays>>}}

\* -------------------------------------------------------------------- run
all_processor_c2c == \A p \in Processors : frequency[p] = CLOSE_TO_CLOSE

NoTasks == [s \in Symbols |-> "none"]
NoData == [s \in Symbols |-> "none"]

\* The state of a second engine after construction, in a process whose sets
\* iterate in the given order.
Shadow(order) ==
    [hash_order |-> order, cash |-> One, positions |-> <<>>, num_win |-> 0,
     num_lose |-> 0, executed |-> <<>>, daily_equity |-> <<One>>]

\* No setup or teardown call yet.
NoCalls == [setup |-> 0, teardown |-> 0, held |-> <<>>]

\* No signal received, no report generated.
NoSignal == [reported |-> FALSE, pending |-> {}, atomic |-> TRUE]

NoUnit == [kind |-> "none"]

\* The engine after __init__ and the head of run().
InitEngine ==
    /\ pc = "setup"
    /\ frequency \in FrequencyConfigs
    /\ hash_order \in HashOrders
    /\ day = 1
    /\ interval = 0
    /\ tasks = NoTasks
    /\ intraday_datas = NoData
    /\ actions = <<>>
    /\ close_actions = <<>>
    /\ open_actions = <<>>
    /\ tradable_cash = Zero
    /\ n_open = 0
    /\ applied = <<>>
    /\ allocated = <<>>
    /\ emitted = 0
    /\ faults = 0
    /\ cash = One
    /\ positions = <<>>
    /\ num_win = 0
    /\ num_lose = 0
    /\ executed_actions = <<>>
    /\ daily_equity = <<One>>
    /\ shadow = Shadow(hash_order)
    /\ calls = NoCalls
    /\ sig = NoSignal

Init ==
    /\ InitEngine
    /\ no_daily_bar = {}
    /\ unit = NoUnit
    /\ proc = [kind |-> "none"]

\* A setup that is handed no positions.
held_nothing == <<>>

\* What _process and _process_c2c hand to setup: the positions list.
held_positions == positions

\* _process / _process_c2c: setup(self._positions, day) on every processor.
SetupDay ==
    /\ pc = "setup"
    /\ day <= MaxDays
    /\ calls' = [calls EXCEPT !.setup = @ + 1, !.held = held_positions]
    /\ tasks' = NoTasks
    /\ intraday_datas' = NoData
    /\ interval' = 0
    /\ pc' = "universe"
    /\ UNCHANGED <<proc, no_daily_bar, unit, sig, shadow, faults, allocated, frequency, hash_order, day, actions,
                   close_actions, open_actions, tradable_cash, n_open, applied, emitted,
                   cash, positions, num_win, num_lose, executed_actions, daily_equity>>

\* _load_stock_universe.  Every processor asks for every symbol.
LoadStockUniverse ==
    /\ pc = "universe"
    /\ pc' = IF all_processor_c2c THEN "c2c" ELSE "submit"
    /\ UNCHANGED <<proc, no_daily_bar, unit, sig, calls, shadow, faults, allocated, frequency, hash_order, day,
                   interval, tasks, intraday_datas, actions, close_actions, open_actions,
                   tradable_cash, n_open, applied, emitted, cash, positions, num_win,
                   num_lose, executed_actions, daily_equity>>

\* ---------------------------------------------------------------- prefetch
Submitted == {s \in Symbols : tasks[s] # "none"}
Pending == {s \in Symbols : tasks[s] = "pending"}
Running == Pending

RECURSIVE FirstIn(_, _, _)
FirstIn(order, S, ind) ==
    IF ind > Len(order) THEN "none"
    ELSE IF order[ind] \in S THEN order[ind]
    ELSE FirstIn(order, S, ind + 1)

\* _load_intraday_data: pool.submit for the next symbol of the set.
SubmitTask ==
    /\ pc = "submit"
    /\ LET s == FirstIn(hash_order, Symbols \ Submitted, 1)
       IN  /\ s # "none"
           /\ tasks' = [tasks EXCEPT ![s] = "pending"]
           /\ pc' = IF Symbols \ Submitted = {s} THEN "collect" ELSE "submit"
    /\ UNCHANGED <<proc, no_daily_bar, unit, sig, calls, shadow, faults, allocated, frequency, hash_order, day, interval, intraday_datas, actions,
                   close_actions, open_actions, tradable_cash, n_open, applied, emitted,
                   cash, positions, num_win, num_lose, executed_actions, daily_equity>>

\* A pool worker ends load_cached_daily_data for one symbol: with bars, with
\* no bars, or with an exception.
TaskOutcomes == {"data", "empty", "raise"}

WorkerFinish(s) ==
    /\ tasks[s] = "pending"
    /\ Cardinality(Running) <= _MAX_WORKERS
    /\ \E outcome \in TaskOutcomes :
          /\ outcome # "data" => faults < MaxFaults
          /\ tasks' = [tasks EXCEPT ![s] = outcome]
          /\ faults' = IF outcome = "data" THEN faults ELSE faults + 1
    /\ UNCHANGED <<proc, no_daily_bar, unit, sig, calls, shadow, pc, allocated, frequency, hash_order, day, interval, intraday_datas, actions,
                   close_actions, open_actions, tradable_cash, n_open, applied, emitted,
                   cash, positions, num_win, num_lose, executed_actions, daily_equity>>

\* Variant of result() that does not block.
ResultNotAwaited(s) == TRUE

\* t.result() returns only once the future is done.
ResultReady(s) == tasks[s] \in TaskOutcomes

\* _load_intraday_data: intraday_datas[symbol] = t.result() for the next task.
CollectResult ==
    /\ pc = "collect"
    /\ LET s == FirstIn(hash_order, {x \in Symbols : intraday_datas[x] = "none"}, 1)
       IN  /\ s # "none"
           /\ ResultReady(s)
           /\ IF tasks[s] = "raise"
              THEN /\ pc' = "shutdown_raised"
                   /\ UNCHANGED intraday_datas
              ELSE /\ intraday_datas' = [intraday_datas EXCEPT ![s] = tasks[s]]
                   /\ pc' = IF \A x \in Symbols \ {s} : intraday_datas[x] # "none"
                            THEN "shutdown" ELSE "collect"
    /\ UNCHANGED <<proc, no_daily_bar, unit, sig, calls, shadow, faults, allocated, frequency, hash_order, day, interval, tasks, actions,
                   close_actions, open_actions, tradable_cash, n_open, applied, emitted,
                   cash, positions, num_win, num_lose, executed_actions, daily_equity>>

\* The end of the with-block: ThreadPoolExecutor.__exit__ is shutdown(wait=True).
PoolJoined == Pending = {}

PoolShutdown ==
    /\ pc \in {"shutdown", "shutdown_raised"}
    /\ PoolJoined
    /\ pc' = IF pc = "shutdown" THEN "interval" ELSE "crashed"
    /\ interval' = IF pc = "shutdown" THEN 1 ELSE interval
    /\ UNCHANGED <<proc, no_daily_bar, unit, sig, calls, shadow, faults, allocated, frequency, hash_order, day, tasks, intraday_datas, actions,
                   close_actions, open_actions, tradable_cash, n_open, applied, emitted,
                   cash, positions, num_win, num_lose, executed_actions, daily_equity>>

\* --------------------------------------------------------- the interval loop
\* current_time of the interval: the end of the 5-minute bar.
Now == <<day, interval>>

\* _process: the frequencies due in the current interval (the first branch
\* wins when the first interval is also the last).
\* A gating whose last-interval branch is never taken.
frequency_last_never(i, n) ==
    IF i = 1 THEN {FIVE_MIN, CLOSE_TO_OPEN} ELSE {FIVE_MIN}

\* frequency_to_process in the i-th of the day's n intervals.
frequency_to_process_at(i, n) ==
    IF i = 1 THEN {FIVE_MIN, CLOSE_TO_OPEN}
    ELSE IF i = n THEN {FIVE_MIN, CLOSE_TO_OPEN, CLOSE_TO_CLOSE}
    ELSE {FIVE_MIN}

frequency_to_process == frequency_to_process_at(interval, IntervalsPerDay)

\* The symbols a Context is built for: those of the frequencies due whose
\* intraday lookback is not empty.
ContextSymbols ==
    {s \in Symbols : /\ \E p \in Processors : frequency[p] \in frequency_to_process
                     /\ intraday_datas[s] = "data"
                     /\ <<s, day>> \notin no_daily_bar}

DueProcessors == {p \in Processors : frequency[p] \in frequency_to_process}

\* What process_data may return for one Context besides None.
Decisions == ActionTypes \X Percents

Action(symbol, type, percent, price, processor) ==
    [symbol |-> symbol, type |-> type, percent |-> percent, price |-> price,
     processor |-> processor]

\* _process_data: the processors in registration order, each over its stock
\* universe list (a list(set(...)), so in hash order); `decide` gives the
\* action of the (processor, symbol) pairs that return one.
RECURSIVE CollectActions(_, _, _, _, _, _)
CollectActions(order, processors, p, ind, decide, price) ==
    IF p > Cardinality(Processors) THEN <<>>
    ELSE IF ind > Len(order) THEN CollectActions(order, processors, p + 1, 1, decide, price)
    ELSE LET s == order[ind]
             rest == CollectActions(order, processors, p, ind + 1, decide, price)
         IN  IF p \in processors /\ <<p, s>> \in DOMAIN decide
             THEN <<Action(s, decide[<<p, s>>][1], decide[<<p, s>>][2], price[s], p)>> \o rest
             ELSE rest

_process_data(processors, contexts, decide, price) ==
    CollectActions(hash_order, processors, 1, 1, decide, price)

\* The batches the processors may return: at most MaxEmitted actions over
\* the run.
Batches(processors, contexts, price) ==
    UNION {{_process_data(processors, contexts, decide, price) : decide \in [K -> Decisions]} :
           K \in {K \in SUBSET (processors \X contexts) :
                    emitted + Cardinality(K) <= MaxEmitted}}

\* _process: one pass of the while loop up to the call of _process_actions.
ProcessData ==
    /\ pc = "interval"
    /\ \E batch \in Batches(DueProcessors, ContextSymbols,
                            [s \in Symbols |-> Close(s, day, interval)]) :
          /\ actions' = batch
          /\ emitted' = emitted + Len(batch)
    /\ pc' = "process_actions"
    /\ UNCHANGED <<proc, no_daily_bar, unit, sig, calls, shadow, faults, allocated, frequency, hash_order, day, interval, tasks, intraday_datas,
                   close_actions, open_actions, tradable_cash, n_open, applied,
                   cash, positions, num_win, num_lose, executed_actions, daily_equity>>

\* day in interday_data.index, for the symbol's stored daily bars.
HasDailyBar(symbol, d) == <<symbol, d>> \notin no_daily_bar

\* _process_c2c up to the call of _process_actions: Contexts at the day's
\* close for the symbols of the close-to-close universe that have a daily
\* bar of the day, every processor.
ProcessDataC2C ==
    /\ pc = "c2c"
    /\ \E batch \in Batches(Processors, {s \in Symbols : HasDailyBar(s, day)},
                            [s \in Symbols |-> DayClose(s, day)]) :
          /\ actions' = batch
          /\ emitted' = emitted + Len(batch)
    /\ interval' = IntervalsPerDay
    /\ pc' = "process_actions"
    /\ UNCHANGED <<proc, no_daily_bar, unit, sig, calls, shadow, faults, allocated, frequency, hash_order, day, tasks, intraday_datas,
                   close_actions, open_actions, tradable_cash, n_open, applied,
                   cash, positions, num_win, num_lose, executed_actions, daily_equity>>

\* ------------------------------------------------------- action resolution
IsClose(a) == a.type \in {BUY_TO_CLOSE, SELL_TO_CLOSE}
IsOpen(a) == a.type \in {BUY_TO_OPEN, SELL_TO_OPEN}

SameKey(a, b) == a.symbol = b.symbol /\ a.type = b.type

\* get_unique_actions (alpharius/trade/common.py), from the spec: of the
\* actions on one symbol and type the first of the batch is kept, in place.
RECURSIVE get_unique_actions(_)
get_unique_actions(batch) ==
    IF batch = <<>> THEN <<>>
    ELSE LET front == get_unique_actions(SubSeq(batch, 1, Len(batch) - 1))
             last == batch[Len(batch)]
         IN  IF \E i \in 1..Len(front) : SameKey(front[i], last)
             THEN front ELSE Append(front, last)

\* Variant of the call that resolves the batch as emitted.
AllActions(batch) == batch

UniqueActions(batch) == get_unique_actions(batch)

\* _process_actions up to the call of _close_positions.
ProcessActions ==
    /\ pc = "process_actions"
    /\ LET unique_actions == UniqueActions(actions)
       IN  /\ close_actions' = SelectSeq(unique_actions, IsClose)
           /\ open_actions' = SelectSeq(unique_actions, IsOpen)
    /\ pc' = "close"
    /\ UNCHANGED <<proc, no_daily_bar, unit, sig, calls, shadow, faults, allocated, frequency, hash_order, day, interval, tasks, intraday_datas, actions,
                   tradable_cash, n_open, applied, emitted,
                   cash, positions, num_win, num_lose, executed_actions, daily_equity>>

SetLedger(L) ==
    /\ cash' = L.cash
    /\ positions' = L.positions
    /\ num_win' = L.num_win
    /\ num_lose' = L.num_lose
    /\ executed_actions' = L.executed

\* _close_positions: one iteration of the loop over the close actions.
ClosePositionsStep ==
    /\ pc = "close"
    /\ close_actions # <<>>
    /\ \E raises \in BOOLEAN :
         LET action == Head(close_actions)
             L == ClosePosition(Ledger, action, Now, raises)
         IN  /\ SetLedger(L)
             /\ applied' = IF CloseSkipped(positions, action) THEN applied
                           ELSE Append(applied, action)
             /\ pc' = IF L.crashed THEN "crashed" ELSE "close"
    /\ close_actions' = Tail(close_actions)
    /\ UNCHANGED <<proc, no_daily_bar, unit, sig, calls, shadow, faults, allocated, frequency, hash_order, day, interval, tasks, intraday_datas, actions,
                   open_actions, tradable_cash, n_open, emitted, daily_equity>>

\* Variant of the call order in which the opens do not wait for the closes.
ClosesNotAwaited == TRUE

\* _process_actions calls _open_positions once _close_positions has returned.
ClosesReturned == close_actions = <<>>

\* _open_positions up to its loop.
OpenPositionsBegin ==
    /\ pc = "close"
    /\ ClosesReturned
    /\ tradable_cash' = TradableCash(cash, positions)
    /\ n_open' = Len(open_actions)
    /\ pc' = "open"
    /\ UNCHANGED <<proc, no_daily_bar, unit, sig, calls, shadow, faults, allocated, frequency, hash_order, day, interval, tasks, intraday_datas, actions,
                   close_actions, open_actions, applied, emitted,
                   cash, positions, num_win, num_lose, executed_actions, daily_equity>>

\* _open_positions: one iteration of the loop over the open actions.
OpenPositionsStep ==
    /\ pc = "open"
    /\ open_actions # <<>>
    /\ \E raises \in BOOLEAN :
         LET action == Head(open_actions)
             L == OpenPosition(Ledger, action, tradable_cash, n_open, Now, raises)
         IN  /\ SetLedger(L)
             /\ pc' = IF L.crashed THEN "crashed" ELSE "open"
             /\ applied' = Append(applied, action)
             /\ allocated' = Append(allocated,
                                    CashToTrade(tradable_cash, n_open, action.percent))
    /\ open_actions' = Tail(open_actions)
    /\ UNCHANGED <<proc, no_daily_bar, unit, sig, calls, shadow, faults, frequency, hash_order, day, interval, tasks, intraday_datas, actions,
                   close_actions, tradable_cash, n_open, emitted, daily_equity>>

\* _process_actions returns; _process moves to the next interval.
NextInterval ==
    /\ pc = "open"
    /\ open_actions = <<>>
    /\ actions' = <<>>
    /\ applied' = <<>>
    /\ allocated' = <<>>
    /\ tradable_cash' = Zero
    /\ n_open' = 0
    /\ IF all_processor_c2c \/ interval = IntervalsPerDay
       THEN pc' = "log_day" /\ UNCHANGED interval
       ELSE pc' = "interval" /\ interval' = interval + 1
    /\ UNCHANGED <<proc, no_daily_bar, unit, sig, calls, shadow, faults, frequency, hash_order, day, tasks, intraday_datas,
                   close_actions, open_actions, emitted,
                   cash, positions, num_win, num_lose, executed_actions, daily_equity>>

\* ------------------------------------------------------------ end of day
\* Variant of the mark that has no fallback to the entry price.
close_price_without_fallback(position, d) == DayClose(position.symbol, d)

\* close_price of _log_day: the day's close, or the entry price of the
\* Position when the symbol has no daily bar of the day.
close_price(position, d) ==
    IF HasDailyBar(position.symbol, d) THEN DayClose(position.symbol, d)
    ELSE position.entry_price

RECURSIVE Equity(_, _, _, _)
Equity(c, ps, d, ind) ==
    IF ind > Len(ps) THEN c
    ELSE Equity(RAdd(c, RMul(ps[ind].qty, close_price(ps[ind], d))), ps, d, ind + 1)

\* The positions table of _log_day divides the close by the entry price.
PositionTableRaises(ps, d, raises) ==
    \E i \in 1..Len(ps) : /\ HasDailyBar(ps[i].symbol, d)
                          /\ DivRaises(ps[i].entry_price, raises)

\* Variant of _log_day that accumulates the equity into self._cash.
cash_marked_to_market(c, equity) == equity

\* self._cash after _log_day: equity starts as a copy of the float and the
\* sum is accumulated in the local name.
cash_after_log_day(c, equity) == c

\* The end of the day: on the interval path teardown() on every processor
\* and _log_day, on the close-to-close path _log_day alone.  run() then takes
\* the next day or, after the last, calls _close().
LogDay ==
    /\ pc = "log_day"
    /\ calls' = IF all_processor_c2c THEN calls
                ELSE [calls EXCEPT !.teardown = @ + 1]
    /\ \E raises \in BOOLEAN :
         IF PositionTableRaises(positions, day, raises)
         THEN /\ pc' = "crashed"
              /\ UNCHANGED <<daily_equity, cash, executed_actions, day>>
         ELSE /\ daily_equity' = Append(daily_equity, Equity(cash, positions, day, 1))
              /\ cash' = cash_after_log_day(cash, Equity(cash, positions, day, 1))
              /\ executed_actions' = <<>>
              /\ day' = day + 1
              /\ pc' = IF day = MaxDays THEN "run_close" ELSE "setup"
    /\ UNCHANGED <<proc, no_daily_bar, unit, sig, shadow, faults, allocated, frequency, hash_order,
                   interval, tasks, intraday_datas, actions, close_actions, open_actions,
                   tradable_cash, n_open, applied, emitted, positions, num_win, num_lose>>

\* _close: the profile, the summary and the plot, then teardown() on every
\* processor.
_close(c) == [c EXCEPT !.teardown = @ + 1]

\* run() after the last day.
RunClose ==
    /\ pc = "run_close"
    /\ sig' = [sig EXCEPT !.reported = TRUE]
    /\ calls' = _close(calls)
    /\ pc' = "done"
    /\ UNCHANGED <<proc, no_daily_bar, unit, shadow, faults, allocated, frequency, hash_order, day, interval, tasks,
                   intraday_datas, actions, close_actions, open_actions, tradable_cash,
                   n_open, applied, emitted, cash, positions, num_win, num_lose,
                   executed_actions, daily_equity>>

Next ==
    \/ SetupDay
    \/ LoadStockUniverse
    \/ SubmitTask
    \/ \E s \in Symbols : WorkerFinish(s)
    \/ CollectResult
    \/ PoolShutdown
    \/ ProcessData
    \/ ProcessDataC2C
    \/ ProcessActions
    \/ ClosePositionsStep
    \/ OpenPositionsBegin
    \/ OpenPositionsStep
    \/ NextInterval
    \/ LogDay
    \/ RunClose

Spec == Init /\ [][Next]_vars

\* The run on stored daily bars with gaps.
InitBars ==
    /\ InitEngine
    /\ hash_order = <<"A", "B">>
    /\ no_daily_bar \in NoDailyBarCases
    /\ unit = NoUnit
    /\ proc = [kind |-> "none"]

SpecBars == InitBars /\ [][Next]_vars

\* ------------------------------------------------- two runs, same inputs
\* The engine run twice on the same date range, processors and price
\* history: the first run in the ledger variables, the second in `shadow`,
\* each in a process with its own iteration order of sets.  Both runs step
\* one interval at a time and the processors return the same decisions for
\* the same Contexts.
MaxEmittedDet == 4

\* The processors of both runs trade whole positions, as those of
\* alpharius/trade/processors do.
DecisionsDet == ActionTypes \X {One}

\* _close_positions: the loop over the close actions, each iteration behind
\* the assert on the action's type.
RECURSIVE _close_positions(_, _, _, _)
_close_positions(L, close_batch, now, raises) ==
    IF close_batch = <<>> \/ L.crashed THEN L
    ELSE IF ~IsClose(Head(close_batch)) THEN [L EXCEPT !.crashed = TRUE]
    ELSE LET closed == CHOOSE M \in {ClosePosition(L, Head(close_batch), now, raises)} : TRUE
         IN  _close_positions(closed, Tail(close_batch), now, raises)

RECURSIVE OpenLoop(_, _, _, _, _, _)
OpenLoop(L, open_batch, T, n, now, raises) ==
    IF open_batch = <<>> \/ L.crashed THEN L
    ELSE IF ~IsOpen(Head(open_batch)) THEN [L EXCEPT !.crashed = TRUE]
    ELSE LET opened == CHOOSE M \in {OpenPosition(L, Head(open_batch), T, n, now, raises)} : TRUE
         IN  OpenLoop(opened, Tail(open_batch), T, n, now, raises)

\* _open_positions: tradable cash, then the loop over the open actions.
_open_positions(L, open_batch, now, raises) ==
    LET T == CHOOSE c \in {TradableCash(L.cash, L.positions)} : TRUE
    IN  OpenLoop(L, open_batch, T, Len(open_batch), now, raises)

_process_actions(L, batch, now, raises) ==
    LET unique_actions == CHOOSE u \in {UniqueActions(batch)} : TRUE
        closed == CHOOSE M \in {_close_positions(L, SelectSeq(unique_actions, IsClose),
                                                 now, raises)} : TRUE
    IN  IF closed.crashed THEN closed
        ELSE _open_positions(closed, SelectSeq(unique_actions, IsOpen), now, raises)

ShadowLedger ==
    [cash |-> shadow.cash, positions |-> shadow.positions, num_win |-> shadow.num_win,
     num_lose |-> shadow.num_lose, executed |-> shadow.executed, crashed |-> FALSE]

SetShadow(L) ==
    shadow' = [shadow EXCEPT !.cash = L.cash, !.positions = L.positions,
                             !.num_win = L.num_win, !.num_lose = L.num_lose,
                             !.executed = L.executed]

InitDet ==
    /\ pc = "det_load"
    /\ frequency \in FrequencyConfigs
    /\ hash_order \in HashOrders
    /\ day = 1
    /\ interval = 0
    /\ tasks = NoTasks
    /\ intraday_datas = NoData
    /\ actions = <<>>
    /\ close_actions = <<>>
    /\ open_actions = <<>>
    /\ tradable_cash = Zero
    /\ n_open = 0
    /\ applied = <<>>
    /\ allocated = <<>>
    /\ emitted = 0
    /\ faults = 0
    /\ cash = One
    /\ positions = <<>>
    /\ num_win = 0
    /\ num_lose = 0
    /\ executed_actions = <<>>
    /\ daily_equity = <<One>>
    /\ shadow \in {Shadow(order) : order \in HashOrders}
    /\ calls = NoCalls
    /\ sig = NoSignal
    /\ no_daily_bar = {}
    /\ unit = NoUnit
    /\ proc = [kind |-> "none"]

\* _load_intraday_data in both runs: intraday_datas is keyed by symbol, so
\* both runs hold what the data source has for each symbol, in whatever
\* order their tasks ended.
DetLoadDay ==
    /\ pc = "det_load"
    /\ day <= MaxDays
    /\ IF all_processor_c2c
       THEN /\ interval' = IntervalsPerDay
            /\ UNCHANGED intraday_datas
       ELSE /\ interval' = 1
            /\ \E fetched \in [Symbols -> {"data", "empty"}] :
                  intraday_datas' = fetched
    /\ pc' = "det_interval"
    /\ UNCHANGED <<proc, no_daily_bar, unit, sig, calls, shadow, faults, allocated, frequency, hash_order, day, tasks, actions,
                   close_actions, open_actions, tradable_cash, n_open, applied, emitted,
                   cash, positions, num_win, num_lose, executed_actions, daily_equity>>

\* One interval of both runs: the same decisions, each run's batch in the
\* order of its own stock universe lists.
DetInterval ==
    /\ pc = "det_interval"
    /\ LET due == IF all_processor_c2c THEN Processors ELSE DueProcessors
           contexts == IF all_processor_c2c THEN Symbols ELSE ContextSymbols
           price == IF all_processor_c2c THEN [s \in Symbols |-> DayClose(s, day)]
                    ELSE [s \in Symbols |-> Close(s, day, interval)]
       IN  \E K \in SUBSET (due \X contexts) :
             /\ emitted + Cardinality(K) <= MaxEmittedDet
             /\ emitted' = emitted + Cardinality(K)
             /\ \E decide \in [K -> DecisionsDet], raises \in BOOLEAN :
                  \E L1 \in {_process_actions(Ledger,
                               CollectActions(hash_order, due, 1, 1, decide, price),
                               Now, raises)},
                     L2 \in {_process_actions(ShadowLedger,
                               CollectActions(shadow.hash_order, due, 1, 1, decide, price),
                               Now, raises)} :
                      /\ SetLedger(L1)
                      /\ SetShadow(L2)
                      /\ IF L1.crashed \/ L2.crashed
                         THEN pc' = "det_crashed" /\ UNCHANGED interval
                         ELSE IF all_processor_c2c \/ interval = IntervalsPerDay
                         THEN pc' = "det_log" /\ UNCHANGED interval
                         ELSE pc' = "det_interval" /\ interval' = interval + 1
    /\ UNCHANGED <<proc, no_daily_bar, unit, sig, calls, faults, allocated, frequency, hash_order, day, tasks, intraday_datas,
                   actions, close_actions, open_actions, tradable_cash, n_open, applied,
                   daily_equity>>

\* _log_day in both runs.
DetLogDay ==
    /\ pc = "det_log"
    /\ daily_equity' = Append(daily_equity, Equity(cash, positions, day, 1))
    /\ shadow' = [shadow EXCEPT
                    !.daily_equity = Append(@, Equity(shadow.cash, shadow.positions, day, 1))]
    /\ day' = day + 1
    /\ pc' = IF day = MaxDays THEN "det_done" ELSE "det_load"
    /\ UNCHANGED <<proc, no_daily_bar, unit, sig, calls, faults, allocated, frequency, hash_order, interval, tasks, intraday_datas,
                   actions, close_actions, open_actions, tradable_cash, n_open, applied,
                   emitted, cash, positions, num_win, num_lose, executed_actions>>

NextDet ==
    \/ DetLoadDay
    \/ DetInterval
    \/ DetLogDay

SpecDet == InitDet /\ [][NextDet]_vars

\* ------------------------------------------------------------ termination
\* signal.signal(SIGINT, self._safe_exit): the handler runs in the main
\* thread between two bytecode instructions of whatever the run is doing,
\* calls _close() and then exit(1).

\* Where _close_positions can stand inside one iteration when the handler
\* runs: after the pop of l.322, after the append of the residual, after
\* the cash update of l.331 (the win/lose count is still to come).
CloseCuts == {"popped", "appended", "cash"}

\* Where _open_positions can stand inside one iteration: after the pop of
\* l.364, after the append of l.372 (the cash update is still to come).
OpenCuts == {"popped", "appended"}

\* The ledger after the statements of one _close_positions iteration up
\* to the cut.
ClosePrefix(L, action, cut) ==
    LET cp == _get_current_position(L.positions, action.symbol)
        popped == _pop_current_position(L.positions, action.symbol)
        qty == RMul(cp.qty, action.percent)
        new_qty == RSub(cp.qty, qty)
        kept == IF GtEpsilon(new_qty)
                THEN Append(popped, ResidualPosition(cp, new_qty))
                ELSE popped
        adjusted_action_price == RMul(action.price, SpreadAdjust(action.type))
    IN  IF cut = "popped" THEN [L EXCEPT !.positions = popped]
        ELSE IF cut = "appended" THEN [L EXCEPT !.positions = kept]
        ELSE [L EXCEPT !.positions = kept,
                       !.cash = RAdd(@, RMul(adjusted_action_price, qty))]

\* The ledger after the statements of one _open_positions iteration up to
\* the cut.
OpenPrefix(L, action, cash_total, n_actions, now, cut) ==
    LET after == OpenPosition(L, action, cash_total, n_actions, now, FALSE)
    IN  IF cut = "popped"
        THEN [L EXCEPT !.positions = _pop_current_position(@, action.symbol)]
        ELSE [L EXCEPT !.positions = after.positions]

\* What the statistics of _close() are computed from.
Core(L) == [cash |-> L.cash, positions |-> L.positions,
            num_win |-> L.num_win, num_lose |-> L.num_lose]

\* The pcs at which the main thread is inside the with block of the pool.
InPool == {"submit", "collect", "shutdown", "shutdown_raised"}

\* _safe_exit: _close() makes the report and tears the processors down,
\* then exit(1) raises SystemExit; inside the with block of
\* _load_intraday_data the exception leaves through the pool's shutdown,
\* which waits for the tasks still pending.
_safe_exit(L, before, afters) ==
    /\ sig' = [reported |-> TRUE, pending |-> Pending,
               atomic |-> Core(L) \in {Core(before)} \cup {Core(a) : a \in afters}]
    /\ calls' = _close(calls)
    /\ SetLedger(L)
    /\ pc' = IF pc \in InPool THEN "sig_drain" ELSE "exited"

\* SIGINT between two steps of the run.
SafeExit ==
    /\ pc \notin {"done", "crashed", "exited", "sig_drain"}
    /\ _safe_exit(Ledger, Ledger, {Ledger})
    /\ UNCHANGED <<proc, no_daily_bar, unit, shadow, faults, allocated, frequency, hash_order, day, interval,
                   tasks, intraday_datas, actions, close_actions, open_actions,
                   tradable_cash, n_open, applied, emitted, daily_equity>>

\* SIGINT inside an iteration of _close_positions that applies its action.
SafeExitInClosePositions ==
    /\ pc = "close"
    /\ close_actions # <<>>
    /\ ~CloseSkipped(positions, Head(close_actions))
    /\ \E cut \in CloseCuts :
         LET action == Head(close_actions)
         IN  _safe_exit(ClosePrefix(Ledger, action, cut), Ledger,
                        {ClosePosition(Ledger, action, Now, r) : r \in BOOLEAN})
    /\ UNCHANGED <<proc, no_daily_bar, unit, shadow, faults, allocated, frequency, hash_order, day, interval,
                   tasks, intraday_datas, actions, close_actions, open_actions,
                   tradable_cash, n_open, applied, emitted, daily_equity>>

\* SIGINT inside an iteration of _open_positions.
SafeExitInOpenPositions ==
    /\ pc = "open"
    /\ open_actions # <<>>
    /\ \E cut \in OpenCuts :
         LET action == Head(open_actions)
         IN  /\ cut = "popped" => HasPosition(positions, action.symbol)
             /\ _safe_exit(OpenPrefix(Ledger, action, tradable_cash, n_open, Now, cut),
                           Ledger,
                           {OpenPosition(Ledger, action, tradable_cash, n_open, Now, r) :
                                r \in BOOLEAN})
    /\ UNCHANGED <<proc, no_daily_bar, unit, shadow, faults, allocated, frequency, hash_order, day, interval,
                   tasks, intraday_datas, actions, close_actions, open_actions,
                   tradable_cash, n_open, applied, emitted, daily_equity>>

\* ThreadPoolExecutor.__exit__ on the way out: shutdown(wait=True) returns
\* once no task is pending, and the process exits.
ExitAfterDrain ==
    /\ pc = "sig_drain"
    /\ PoolJoined
    /\ pc' = "exited"
    /\ UNCHANGED <<proc, no_daily_bar, unit, sig, calls, shadow, faults, allocated, frequency, hash_order, day,
                   interval, tasks, intraday_datas, actions, close_actions, open_actions,
                   tradable_cash, n_open, applied, emitted, cash, positions, num_win,
                   num_lose, executed_actions, daily_equity>>

\* A run on the interval path.
InitSig ==
    /\ Init
    /\ ~all_processor_c2c
    /\ hash_order = <<"A", "B">>

NextSig ==
    \/ SetupDay
    \/ LoadStockUniverse
    \/ SubmitTask
    \/ \E s \in Symbols : WorkerFinish(s)
    \/ CollectResult
    \/ PoolShutdown
    \/ ProcessData
    \/ ProcessActions
    \/ ClosePositionsStep
    \/ OpenPositionsBegin
    \/ OpenPositionsStep
    \/ NextInterval
    \/ LogDay
    \/ RunClose
    \/ SafeExit
    \/ SafeExitInClosePositions
    \/ SafeExitInOpenPositions
    \/ ExitAfterDrain

SpecSig == InitSig /\ [][NextSig]_vars


\* -------------------------------------------------------- data preparation
\* One bar of an OHLCV series; t is its timestamp in the index (a day
\* number in an interday series, an interval number in an intraday one).
Bar(t, open, close, volume) ==
    [t |-> t, Open |-> Int2R(open), Close |-> Int2R(close),
     High |-> Int2R(IF open > close THEN open ELSE close),
     Low |-> Int2R(IF open > close THEN close ELSE open),
     Volume |-> Int2R(volume)]

\* np.round: to the nearest integer, a half to the even neighbour; inf and
\* nan are returned as they are.
np_round(r) ==
    IF ~IsFinite(r) THEN r
    ELSE LET floor == r[1] \div r[2]
             rem2 == 2 * (r[1] - floor * r[2])
         IN  IF rem2 < r[2] THEN Int2R(floor)
             ELSE IF rem2 > r[2] THEN Int2R(floor + 1)
             ELSE IF floor % 2 = 0 THEN Int2R(floor) ELSE Int2R(floor + 1)

\* The ratio _adjust_split rounds, with the two prices swapped.
split_ratio_swapped(prev_close, intraday_open) == RDiv(prev_close, intraday_open)

\* The ratio _adjust_split rounds: intraday_open / prev_close.
split_ratio(prev_close, intraday_open) == RDiv(intraday_open, prev_close)

\* split_factor of _adjust_split.
split_factor(intraday_lookback, interday_lookback) ==
    LET prev_close == interday_lookback[Len(interday_lookback)].Close
        intraday_open == intraday_lookback[1].Open
    IN  np_round(split_ratio(prev_close, intraday_open))

\* A volume that is only multiplied by split_factor ** 2.
volume_squared_only(volume, f) == RMul(volume, RMul(f, f))

\* What the two statements of _adjust_split make of a Volume value: apply
\* divides every column, Volume too, by split_factor, and the second
\* statement multiplies the Volume column by split_factor ** 2.
adjusted_volume(volume, f) == RMul(RDiv(volume, f), RMul(f, f))

\* One row of the frame after the two statements.
AdjustBar(b, f) ==
    [t |-> b.t, Open |-> RDiv(b.Open, f), High |-> RDiv(b.High, f),
     Low |-> RDiv(b.Low, f), Close |-> RDiv(b.Close, f),
     Volume |-> adjusted_volume(b.Volume, f)]

_adjust_split(intraday_lookback, interday_lookback) ==
    LET f == split_factor(intraday_lookback, interday_lookback)
    IN  IF RLt(One, f)
        THEN [i \in 1..Len(intraday_lookback) |-> AdjustBar(intraday_lookback[i], f)]
        ELSE intraday_lookback

\* ---------------------------------------------------------------- contexts
\* What a lookback function returns: None or a slice of the series.
None == [is_none |-> TRUE, bars |-> <<>>]
Some(bars) == [is_none |-> FALSE, bars |-> bars]

\* The index of a series.
Index(data) == [i \in 1..Len(data) |-> data[i].t]

\* timestamp_to_index: the place of the timestamp in the time-ordered
\* index, nothing when the index does not hold it.  Places count from 1
\* here and 0 stands for None.
timestamp_to_index(index, timestamp) ==
    IF \E i \in 1..Len(index) : index[i] = timestamp
    THEN CHOOSE i \in 1..Len(index) : index[i] = timestamp
    ELSE 0

\* interday_data.iloc[:interday_ind]
_prepare_interday_lookback(interday_data, d, symbol) ==
    IF symbol \notin DOMAIN interday_data THEN None
    ELSE LET data == interday_data[symbol]
             interday_ind == timestamp_to_index(Index(data), d)
         IN  IF interday_ind = 0 THEN None
             ELSE Some(SubSeq(data, 1, interday_ind - 1))

\* A slice that runs one bar past the current interval.
_prepare_intraday_lookahead(current_interval_start, symbol, datas) ==
    LET data == datas[symbol]
        intraday_ind == timestamp_to_index(Index(data), current_interval_start)
    IN  IF intraday_ind = 0 THEN None
        ELSE Some(SubSeq(data, 1, IF intraday_ind < Len(data)
                                  THEN intraday_ind + 1 ELSE intraday_ind))

\* intraday_data.iloc[:intraday_ind + 1]
_prepare_intraday_lookback(current_interval_start, symbol, datas) ==
    LET data == datas[symbol]
        intraday_ind == timestamp_to_index(Index(data), current_interval_start)
    IN  IF intraday_ind = 0 THEN None
        ELSE Some(SubSeq(data, 1, intraday_ind))

NoContext == [built |-> FALSE]

\* The body of the loop over unique_symbols in _process.
Context(c, symbol) ==
    LET intraday_lookback ==
            _prepare_intraday_lookback(c.current_interval_start, symbol, c.intraday_datas)
        interday_lookback == _prepare_interday_lookback(c.interday_data, c.day, symbol)
    IN  IF intraday_lookback.is_none \/ Len(intraday_lookback.bars) = 0
        THEN NoContext
        ELSE IF interday_lookback.is_none \/ Len(interday_lookback.bars) = 0
        THEN NoContext
        ELSE LET adjusted == _adjust_split(intraday_lookback.bars, interday_lookback.bars)
             IN  [built |-> TRUE, symbol |-> symbol,
                  current_price |-> adjusted[Len(adjusted)].Close,
                  interday_lookback |-> interday_lookback.bars,
                  intraday_lookback |-> Some(adjusted)]

\* The body of the loop over the close-to-close universe in _process_c2c.
ContextC2C(c, symbol) ==
    LET interday_lookback == _prepare_interday_lookback(c.interday_data, c.day, symbol)
    IN  IF interday_lookback.is_none
        THEN NoContext
        ELSE LET data == c.interday_data[symbol]
             IN  [built |-> TRUE, symbol |-> symbol,
                  current_price |-> data[timestamp_to_index(Index(data), c.day)].Close,
                  interday_lookback |-> interday_lookback.bars,
                  intraday_lookback |-> None]

\* The stored series the context cases are drawn from: up to MaxBars daily
\* bars and up to MaxBars five-minute bars of the day per symbol.
MaxBars == 3

InterdayBar(d) == Bar(d, 50, 50 * d, 1000)
IntradayBar(t) == Bar(t, 100, 100 + 10 * t, 1000)

RECURSIVE Ascending(_, _)
\* The members of a set of timestamps from lo on, in time order.
Ascending(S, lo) ==
    IF lo > MaxBars THEN <<>>
    ELSE IF lo \in S THEN <<lo>> \o Ascending(S, lo + 1)
    ELSE Ascending(S, lo + 1)

InterdaySeries == {[i \in 1..Len(ix) |-> InterdayBar(ix[i])] :
                      ix \in {Ascending(S, 1) : S \in SUBSET (1..MaxBars)}}
IntradaySeries == {[i \in 1..Len(ix) |-> IntradayBar(ix[i])] :
                      ix \in {Ascending(S, 1) : S \in SUBSET (1..MaxBars)}}

FullInterday == [i \in 1..MaxBars |-> InterdayBar(i)]
FullIntraday == [i \in 1..MaxBars |-> IntradayBar(i)]

\* self._interday_data: A with any series or absent, B with every bar.
InterdayStores ==
    {[s \in Symbols |-> IF s = "A" THEN a ELSE FullInterday] : a \in InterdaySeries}
    \cup {[s \in {"B"} |-> FullInterday]}

\* intraday_datas of the day: A with any bars of the day, B with every bar.
IntradayStores ==
    {[s \in Symbols |-> IF s = "A" THEN a ELSE FullIntraday] : a \in IntradaySeries}

ContextCases ==
    {[kind |-> "contexts", done |-> FALSE, path |-> "interval",
      interday_data |-> inter, intraday_datas |-> intra,
      day |-> d, current_interval_start |-> t] :
        inter \in InterdayStores, intra \in IntradayStores,
        d \in 1..MaxBars, t \in 1..MaxBars}
    \cup
    {[kind |-> "contexts", done |-> FALSE, path |-> "c2c",
      interday_data |-> inter, intraday_datas |-> [s \in Symbols |-> <<>>],
      day |-> d, current_interval_start |-> 0] :
        inter \in InterdayStores, d \in 1..MaxBars}

\* The batches action resolution is tried on: an action on A of any type,
\* one of the four or another value, and of any percent, alone or followed
\* by a BUY_TO_OPEN of B, on a ledger without positions or with A held.
OTHER_TYPE == "OTHER"
AnyTypes == ActionTypes \cup {OTHER_TYPE}
AnyPercents == {<<-1, 2>>, Zero, <<1, 2>>, One, <<3, 2>>}

BatchLedgers ==
    {[cash |-> One, positions |-> <<>>, num_win |-> 0, num_lose |-> 0,
      executed |-> <<>>, crashed |-> FALSE],
     [cash |-> <<1, 2>>, positions |-> <<Position("A", <<1, 2>>, One, <<0, 1>>)>>,
      num_win |-> 0, num_lose |-> 0, executed |-> <<>>, crashed |-> FALSE]}

BatchCases ==
    {[kind |-> "batch", done |-> FALSE, ledger |-> L,
      batch |-> <<Action("A", type, percent, Int2R(2), 1)>> \o rest] :
        L \in BatchLedgers, type \in AnyTypes, percent \in AnyPercents,
        rest \in {<<>>, <<Action("B", BUY_TO_OPEN, One, One, 2)>>}}

\* The split adjustment cases: the previous close, the day's first open,
\* the close of the bars and their volume.
PrevCloses == {50, 100}
DayOpens == {50, 100, 150, 200, 250}
RawCloses == {60, 90}
RawVolumes == {500, 1000}

SplitCases ==
    {[kind |-> "split", done |-> FALSE,
      interday_lookback |-> <<Bar(0, pc0, pc0, 1000)>>,
      intraday_lookback |-> <<Bar(1, o, c, v), Bar(2, c, c, v)>>] :
        pc0 \in PrevCloses, o \in DayOpens, c \in RawCloses, v \in RawVolumes}

\* ------------------------------------------------------------ the summary
\* A drawdown whose peak stays at the first value.
peak_kept(h, v) == h

\* max(h, v) of _compute_drawdown: the running peak.
running_peak(h, v) == IF RLt(h, v) THEN v ELSE h

RECURSIVE DrawdownLoop(_, _, _, _)
\* The loop of _compute_drawdown from the ind-th value on.
DrawdownLoop(values, ind, h, d) ==
    IF ind > Len(values) THEN d
    ELSE DrawdownLoop(values, ind + 1, running_peak(h, values[ind]),
                      RMin(RSub(RDiv(values[ind], h), One), d))

_compute_drawdown(values) == DrawdownLoop(values, 1, values[1], Zero)

\* The equity sequences the drawdown is computed of.
MaxEquityLen == 4
EquityValues == {<<9, 10>>, One, <<21, 20>>, <<11, 10>>}

DrawdownCases ==
    {[kind |-> "drawdown", done |-> FALSE, values |-> values] :
        values \in UNION {[1..n -> EquityValues] : n \in 1..MaxEquityLen}}

RECURSIVE YearLoop(_, _, _, _, _)
\* The loop over market_dates of _print_summary and _plot_summary from the
\* i-th day on (i counts from 0 as in the code; years[i + 1] is the year of
\* market_dates[i]).  A slice is closed at day i when i is the last day or
\* the next day's year is current_year + 1; then current_start = i.
YearLoop(years, i, current_year, current_start, slices) ==
    IF i >= Len(years) THEN slices
    ELSE IF i # Len(years) - 1 /\ years[i + 2] # current_year + 1
    THEN YearLoop(years, i + 1, current_year, current_start, slices)
    ELSE YearLoop(years, i + 1, current_year + 1, i,
                  Append(slices, [year |-> current_year, start |-> current_start,
                                  last |-> i]))

\* The yearly rows of the summary: the slice of current_year runs from
\* daily_equity[current_start] to daily_equity[i + 1].
YearSlices(start_year, years) == YearLoop(years, 0, start_year, 0, <<>>)

\* profit of a slice: daily_equity[i + 1] / daily_equity[current_start]
SliceGain(equity, slice) == RDiv(equity[slice.last + 2], equity[slice.start + 1])

\* The runs the summary is computed of: up to MaxSummaryDays market days
\* over consecutive calendar years, a start date in the year of the first
\* market day or in the year before, and an equity that stays or doubles
\* each day.
MaxSummaryDays == 3
FirstYear == 2021
MarketYears ==
    {ys \in UNION {[1..n -> FirstYear..(FirstYear + 2)] : n \in 1..MaxSummaryDays} :
        /\ ys[1] = FirstYear
        /\ \A k \in 1..(Len(ys) - 1) : ys[k + 1] \in {ys[k], ys[k] + 1}}

SummaryCases ==
    {[kind |-> "summary", done |-> FALSE, start_year |-> y0, years |-> ys,
      daily_equity |-> <<One>> \o e] :
        y0 \in {FirstYear - 1, FirstYear},
        <<ys, e>> \in {c \in MarketYears \X
                           UNION {[1..n -> {One, Int2R(2), Int2R(4)}] :
                                     n \in 1..MaxSummaryDays} :
                         Len(c[1]) = Len(c[2])}}

\* ------------------------------------------------- the stored series
\* A division written into the frame the slice was taken from.
stored_divided_in_place(stored, n, f) ==
    IF RLt(One, f)
    THEN [i \in 1..Len(stored) |-> IF i <= n THEN AdjustBar(stored[i], f) ELSE stored[i]]
    ELSE stored

\* The stored series after _adjust_split has worked on its first n rows:
\* DataFrame.apply returns a new frame, and the Volume column is assigned
\* on that new frame, so the frame the slice came from is as it was.
stored_after_adjust(stored, n, f) == stored

\* The days whose Contexts are built one interval after the other: the
\* stored intraday bars of a symbol and its interday lookback.
DayCases ==
    {[kind |-> "day", stored |-> bars, raw |-> bars, interday_lookback |-> inter,
      raw_interday |-> inter, seen |-> <<>>] :
        bars \in IntradaySeries \ {<<>>},
        inter \in {<<InterdayBar(1)>>, <<InterdayBar(1), InterdayBar(2)>>}}

\* ------------------------------------------------------------- gating
\* unique_symbols of _process: the universes of the frequencies due.
unique_symbols(freq, universes, due) ==
    UNION {universes[p] : p \in {q \in Processors : freq[q] \in due}}

\* The processors _process hands to _process_data.
due_processors(freq, due) == {p \in Processors : freq[p] \in due}

\* The intervals gating is tried on: a day of 2 to MaxGateIntervals
\* intervals, any frequencies that put the run on the interval path, any
\* stock universes.
MaxGateIntervals == 3
Frequencies == {FIVE_MIN, CLOSE_TO_OPEN, CLOSE_TO_CLOSE}

GateCases ==
    {[kind |-> "gate", done |-> FALSE, n |-> c[1], i |-> c[2], frequency |-> freq,
      universes |-> universes] :
        c \in {c \in (2..MaxGateIntervals) \X (1..MaxGateIntervals) : c[2] <= c[1]},
        freq \in {f \in [Processors -> Frequencies] :
                     \E p \in Processors : f[p] # CLOSE_TO_CLOSE},
        universes \in [Processors -> SUBSET Symbols]}

\* ------------------------------------------------- the memoized lookback
\* functools.lru_cache keeps at most MaxMemo results, the least recently
\* used one leaving first.
MaxMemo == 1

\* The symbols a stock universe may name; C has no interday series.
MemoSymbols == Symbols \cup {"C"}

\* Variant of the cache key that leaves the day out.
same_symbol(key, other) == key[2] = other[2]

\* The cache key: the (day, symbol) arguments of the call.
same_key(key, other) == key = other

\* The place of the key in the cache, 0 when it is not there.
cache_find(cache, key) ==
    IF \E i \in 1..Len(cache) : same_key(cache[i].key, key)
    THEN CHOOSE i \in 1..Len(cache) : same_key(cache[i].key, key)
    ELSE 0

\* A call of the memoized _prepare_interday_lookback: a hit returns the
\* stored result and makes it the most recently used one, a miss computes
\* the slice, stores it and evicts the least recently used result when the
\* cache is full.
lru_cache_call(cache, interday_data, d, symbol) ==
    LET key == <<d, symbol>>
        i == cache_find(cache, key)
    IN  IF i # 0
        THEN [value |-> cache[i].value, hit |-> TRUE, evicted |-> {},
              cache |-> Append(SubSeq(cache, 1, i - 1) \o SubSeq(cache, i + 1, Len(cache)),
                               cache[i])]
        ELSE LET value == _prepare_interday_lookback(interday_data, d, symbol)
                 filled == Append(cache, [key |-> key, value |-> value])
             IN  IF Len(filled) > MaxMemo
                 THEN [value |-> value, hit |-> FALSE, evicted |-> {filled[1].key},
                       cache |-> Tail(filled)]
                 ELSE [value |-> value, hit |-> FALSE, evicted |-> {}, cache |-> filled]

NoLookup == [key |-> <<0, "">>, value |-> None, hit |-> FALSE]

\* A run after load_tradable_history: the interday store, a copy of what
\* was loaded, the day of the run, the cache, the keys of the day evicted so
\* far, the last lookback returned and whether a call has recomputed an evicted key.
MemoCases ==
    {[kind |-> "memo", interday_data |-> inter, loaded |-> inter, d |-> 1,
      cache |-> <<>>, evicted |-> {}, got |-> NoLookup, refilled |-> FALSE] :
        inter \in InterdayStores}

UnitCases == SplitCases \cup ContextCases \cup BatchCases \cup DrawdownCases \cup SummaryCases \cup DayCases \cup GateCases \cup MemoCases

\* A call of _adjust_split.
AdjustSplit ==
    /\ unit.kind = "split"
    /\ ~unit.done
    /\ unit' = [kind |-> "split", done |-> TRUE,
                interday_lookback |-> unit.interday_lookback,
                intraday_lookback |-> unit.intraday_lookback,
                factor |-> split_factor(unit.intraday_lookback, unit.interday_lookback),
                adjusted |-> _adjust_split(unit.intraday_lookback, unit.interday_lookback)]
    /\ UNCHANGED <<proc, no_daily_bar, sig, calls, shadow, faults, allocated, pc, frequency, hash_order, day,
                   interval, tasks, intraday_datas, actions, close_actions, open_actions,
                   tradable_cash, n_open, applied, emitted, cash, positions, num_win,
                   num_lose, executed_actions, daily_equity>>

\* _process: the contexts of one interval.
BuildContexts ==
    /\ unit.kind = "contexts"
    /\ unit.path = "interval"
    /\ ~unit.done
    /\ unit' = [kind |-> "contexts", done |-> TRUE, path |-> unit.path,
                interday_data |-> unit.interday_data,
                intraday_datas |-> unit.intraday_datas,
                day |-> unit.day,
                current_interval_start |-> unit.current_interval_start,
                contexts |-> [s \in Symbols |-> Context(unit, s)]]
    /\ UNCHANGED <<proc, no_daily_bar, sig, calls, shadow, faults, allocated, pc, frequency, hash_order, day,
                   interval, tasks, intraday_datas, actions, close_actions, open_actions,
                   tradable_cash, n_open, applied, emitted, cash, positions, num_win,
                   num_lose, executed_actions, daily_equity>>

\* _process_c2c: the contexts of the day.
BuildContextsC2C ==
    /\ unit.kind = "contexts"
    /\ unit.path = "c2c"
    /\ ~unit.done
    /\ unit' = [kind |-> "contexts", done |-> TRUE, path |-> unit.path,
                interday_data |-> unit.interday_data,
                intraday_datas |-> unit.intraday_datas,
                day |-> unit.day,
                current_interval_start |-> unit.current_interval_start,
                contexts |-> [s \in Symbols |-> ContextC2C(unit, s)]]
    /\ UNCHANGED <<proc, no_daily_bar, sig, calls, shadow, faults, allocated, pc, frequency, hash_order, day,
                   interval, tasks, intraday_datas, actions, close_actions, open_actions,
                   tradable_cash, n_open, applied, emitted, cash, positions, num_win,
                   num_lose, executed_actions, daily_equity>>

\* A call of _process_actions on the batch.
ResolveBatch ==
    /\ unit.kind = "batch"
    /\ ~unit.done
    /\ \E raises \in BOOLEAN :
         unit' = [kind |-> "batch", done |-> TRUE, ledger |-> unit.ledger,
                  batch |-> unit.batch,
                  result |-> _process_actions(unit.ledger, unit.batch, <<1, 1>>, raises)]
    /\ UNCHANGED <<proc, no_daily_bar, sig, calls, shadow, faults, allocated, pc, frequency, hash_order, day,
                   interval, tasks, intraday_datas, actions, close_actions, open_actions,
                   tradable_cash, n_open, applied, emitted, cash, positions, num_win,
                   num_lose, executed_actions, daily_equity>>

\* A call of _compute_drawdown.
ComputeDrawdown ==
    /\ unit.kind = "drawdown"
    /\ ~unit.done
    /\ unit' = [kind |-> "drawdown", done |-> TRUE, values |-> unit.values,
                drawdown |-> _compute_drawdown(unit.values)]
    /\ UNCHANGED <<proc, no_daily_bar, sig, calls, shadow, faults, allocated, pc, frequency, hash_order, day,
                   interval, tasks, intraday_datas, actions, close_actions, open_actions,
                   tradable_cash, n_open, applied, emitted, cash, positions, num_win,
                   num_lose, executed_actions, daily_equity>>

\* The yearly part of _print_summary.
PrintSummary ==
    /\ unit.kind = "summary"
    /\ ~unit.done
    /\ unit' = [kind |-> "summary", done |-> TRUE, start_year |-> unit.start_year,
                years |-> unit.years, daily_equity |-> unit.daily_equity,
                slices |-> YearSlices(unit.start_year, unit.years)]
    /\ UNCHANGED <<proc, no_daily_bar, sig, calls, shadow, faults, allocated, pc, frequency, hash_order, day,
                   interval, tasks, intraday_datas, actions, close_actions, open_actions,
                   tradable_cash, n_open, applied, emitted, cash, positions, num_win,
                   num_lose, executed_actions, daily_equity>>

\* _process: the lookback of the next interval of the day is sliced from
\* the stored series and adjusted.
AdjustNextInterval ==
    /\ unit.kind = "day"
    /\ Len(unit.seen) < Len(unit.stored)
    /\ LET n == Len(unit.seen) + 1
           intraday_lookback == SubSeq(unit.stored, 1, n)
           f == split_factor(intraday_lookback, unit.interday_lookback)
       IN  unit' = [unit EXCEPT
                      !.seen = Append(@, _adjust_split(intraday_lookback,
                                                       unit.interday_lookback)),
                      !.stored = stored_after_adjust(@, n, f)]
    /\ UNCHANGED <<proc, no_daily_bar, sig, calls, shadow, faults, allocated, pc, frequency, hash_order, day,
                   interval, tasks, intraday_datas, actions, close_actions, open_actions,
                   tradable_cash, n_open, applied, emitted, cash, positions, num_win,
                   num_lose, executed_actions, daily_equity>>

\* _process: one pass of the while loop up to the call of process_all_data.
GateInterval ==
    /\ unit.kind = "gate"
    /\ ~unit.done
    /\ LET due == frequency_to_process_at(unit.i, unit.n)
           symbols == unique_symbols(unit.frequency, unit.universes, due)
           processors == due_processors(unit.frequency, due)
       IN  unit' = [kind |-> "gate", done |-> TRUE, n |-> unit.n, i |-> unit.i,
                    frequency |-> unit.frequency, universes |-> unit.universes,
                    contexts |-> symbols,
                    offered |-> [p \in processors |-> unit.universes[p] \cap symbols]]
    /\ UNCHANGED <<proc, no_daily_bar, sig, calls, shadow, faults, allocated, pc, frequency, hash_order, day,
                   interval, tasks, intraday_datas, actions, close_actions, open_actions,
                   tradable_cash, n_open, applied, emitted, cash, positions, num_win,
                   num_lose, executed_actions, daily_equity>>

\* _process and _process_c2c: the interday lookback of a symbol of the
\* day's universe.
MemoLookup ==
    /\ unit.kind = "memo"
    /\ \E symbol \in MemoSymbols :
         LET call == lru_cache_call(unit.cache, unit.interday_data, unit.d, symbol)
         IN  unit' = [unit EXCEPT
                        !.cache = call.cache,
                        !.evicted = @ \cup call.evicted,
                        !.got = [key |-> <<unit.d, symbol>>, value |-> call.value,
                                 hit |-> call.hit],
                        !.refilled = @ \/ (~call.hit /\ <<unit.d, symbol>> \in unit.evicted)]
    /\ UNCHANGED <<proc, no_daily_bar, sig, calls, shadow, faults, allocated, pc, frequency, hash_order, day,
                   interval, tasks, intraday_datas, actions, close_actions, open_actions,
                   tradable_cash, n_open, applied, emitted, cash, positions, num_win,
                   num_lose, executed_actions, daily_equity>>

\* run: the next day of the loop over the market dates.
MemoNextDay ==
    /\ unit.kind = "memo"
    /\ unit.d < MaxBars
    /\ unit' = [unit EXCEPT !.d = @ + 1, !.evicted = {}]
    /\ UNCHANGED <<proc, no_daily_bar, sig, calls, shadow, faults, allocated, pc, frequency, hash_order, day,
                   interval, tasks, intraday_datas, actions, close_actions, open_actions,
                   tradable_cash, n_open, applied, emitted, cash, positions, num_win,
                   num_lose, executed_actions, daily_equity>>

InitUnit ==
    /\ InitEngine
    /\ ~all_processor_c2c
    /\ hash_order = <<"A", "B">>
    /\ no_daily_bar = {}
    /\ unit \in UnitCases
    /\ proc = [kind |-> "none"]

NextUnit ==
    \/ AdjustSplit
    \/ BuildContexts
    \/ BuildContextsC2C
    \/ ResolveBatch
    \/ ComputeDrawdown
    \/ PrintSummary
    \/ AdjustNextInterval
    \/ GateInterval
    \/ MemoLookup
    \/ MemoNextDay

SpecUnit == InitUnit /\ [][NextUnit]_vars


\* ---------------------------------------------------------- the processors
\* A run with a ZScoreProcessor (processor 1) and an AbcdProcessor
\* (processor 2), both FIVE_MIN.  A day has MaxProcIntervals 5-minute
\* intervals; a time is <<day, interval>>, the end of the interval.
MaxProcIntervals == 4
\* The processors open at most MaxProcOpens times in a run.
MaxProcOpens == 3
Z_SCORE == 1
ABCD == 2

NotTracked == <<0, 0>>

\* current_time >= entry_time + k * 5 minutes; the night between two market
\* days is longer than any k used here.
AtOrAfter(now, entry_time, k) ==
    \/ now[1] > entry_time[1]
    \/ now[1] = entry_time[1] /\ now[2] >= entry_time[2] + k

\* ENTRY_TIME < t < EXIT_TIME of ZScoreProcessor._open_position, and
\* 10:30 <= t <= 15:30 of AbcdProcessor._open_position: neither the first nor
\* the last interval of the day.
InEntryWindow(i) == 1 < i /\ i < MaxProcIntervals

\* t >= 16:00: the interval that ends at the market close.
AtMarketClose(i) == i = MaxProcIntervals

NoAction == "none"

\* Variant of ZScoreProcessor._close_position that keeps the entry.
z_close_position_kept(entry_time, now) ==
    IF ~AtOrAfter(now, entry_time, 1)
    THEN [entry_time |-> entry_time, action |-> NoAction]
    ELSE [entry_time |-> entry_time, action |-> SELL_TO_CLOSE]

\* ZScoreProcessor._close_position on the entry of the context's symbol.
z_close_position(entry_time, now) ==
    IF ~AtOrAfter(now, entry_time, 1)
    THEN [entry_time |-> entry_time, action |-> NoAction]
    ELSE [entry_time |-> NotTracked, action |-> SELL_TO_CLOSE]

\* ZScoreProcessor._open_position; is_trade stands for the z-score tests.
z_open_position(now, is_trade) ==
    IF InEntryWindow(now[2]) /\ is_trade
    THEN [entry_time |-> now, action |-> BUY_TO_OPEN]
    ELSE [entry_time |-> NotTracked, action |-> NoAction]

\* ZScoreProcessor.process_data on one Context.
z_process_data(entry_time, now, is_trade) ==
    IF entry_time # NotTracked THEN z_close_position(entry_time, now)
    ELSE z_open_position(now, is_trade)

Untracked == [status |-> "untracked", entry_time |-> NotTracked]

\* The take-profit and time tests of AbcdProcessor._close_position;
\* is_trade stands for the price test of the take-profit.
abcd_is_close(entry_time, now, is_trade) ==
    \/ now = <<entry_time[1], entry_time[2] + 6>> /\ is_trade
    \/ AtOrAfter(now, entry_time, 8)
    \/ AtMarketClose(now[2])

\* AbcdProcessor._close_position on the entry of the context's symbol.
abcd_close_position(position, now, is_trade) ==
    IF position.status # "active" THEN [position |-> position, action |-> NoAction]
    ELSE IF abcd_is_close(position.entry_time, now, is_trade)
    THEN [position |-> [position EXCEPT !.status = "inactive"], action |-> SELL_TO_CLOSE]
    ELSE [position |-> position, action |-> NoAction]

\* AbcdProcessor._open_position; is_trade stands for the pattern tests.
abcd_open_position(now, is_trade) ==
    IF InEntryWindow(now[2]) /\ is_trade
    THEN [position |-> [status |-> "active", entry_time |-> now], action |-> BUY_TO_OPEN]
    ELSE [position |-> Untracked, action |-> NoAction]

\* AbcdProcessor.process_data on one Context.
abcd_process_data(position, now, is_trade) ==
    IF position # Untracked THEN abcd_close_position(position, now, is_trade)
    ELSE abcd_open_position(now, is_trade)

\* Processor.setup, which ZScoreProcessor inherits: the private positions are
\* left as they are.
z_setup(entry_time) == entry_time

\* Variant of AbcdProcessor.setup that drops every entry.
abcd_setup_clears(position) == Untracked

\* AbcdProcessor.setup on one entry: dropped unless active.
abcd_setup(position) == IF position.status # "active" THEN Untracked ELSE position

\* Variant of get_stock_universe without the tracked symbols.
ranked_universe_only(ranked, tracked) == ranked

\* get_stock_universe of both processors: the ranked universe and the keys
\* of the private positions.
get_stock_universe(ranked, tracked) == ranked \cup tracked

ZTracked(z) == {s \in Symbols : z[s] # NotTracked}
AbcdTracked(abcd) == {s \in Symbols : abcd[s] # Untracked}

\* The processors' private positions, the day's ranked universe, the stock universes, the
\* symbols the last interval had Contexts for and what each processor has
\* emitted for each symbol.
InitProcessors ==
    [kind |-> "processors",
     z |-> [s \in Symbols |-> NotTracked],
     abcd |-> [s \in Symbols |-> Untracked],
     ranked |-> {},
     universes |-> <<{}, {}>>,
     contexts |-> {},
     emitted |-> [p \in Processors |-> [s \in Symbols |-> <<>>]]]

\* The actions process_all_data returns for one processor, in the order of
\* its universe list.
RECURSIVE ProcessorActions(_, _, _, _, _)
ProcessorActions(order, ind, p, result, price) ==
    IF ind > Len(order) THEN <<>>
    ELSE LET s == order[ind]
             rest == ProcessorActions(order, ind + 1, p, result, price)
         IN  IF s \in DOMAIN result /\ result[s].action # NoAction
             THEN <<Action(s, result[s].action, One, price[s], p)>> \o rest
             ELSE rest

Emit(log, result) ==
    [s \in Symbols |-> IF s \in DOMAIN result /\ result[s].action # NoAction
                       THEN Append(log[s], result[s].action) ELSE log[s]]

InitProc ==
    /\ pc = "p_setup"
    /\ frequency = [p \in Processors |-> FIVE_MIN]
    /\ hash_order = <<"A", "B">>
    /\ day = 1
    /\ interval = 0
    /\ tasks = NoTasks
    /\ intraday_datas = NoData
    /\ actions = <<>>
    /\ close_actions = <<>>
    /\ open_actions = <<>>
    /\ tradable_cash = Zero
    /\ n_open = 0
    /\ applied = <<>>
    /\ allocated = <<>>
    /\ emitted = 0
    /\ faults = 0
    /\ cash = One
    /\ positions = <<>>
    /\ num_win = 0
    /\ num_lose = 0
    /\ executed_actions = <<>>
    /\ daily_equity = <<One>>
    /\ shadow = Shadow(hash_order)
    /\ calls = NoCalls
    /\ sig = NoSignal
    /\ no_daily_bar = {}
    /\ unit = [kind |-> "none"]
    /\ proc = InitProcessors

\* _process up to the interval loop: setup on every processor, then
\* _load_stock_universe; `ranked` is what IntradayVolatilityStockUniverse
\* returns for the day, the same for both processors.
ProcSetupDay ==
    /\ pc = "p_setup"
    /\ day <= MaxDays
    /\ \E ranked \in SUBSET Symbols :
         LET z == [s \in Symbols |-> z_setup(proc.z[s])]
             abcd == [s \in Symbols |-> abcd_setup(proc.abcd[s])]
         IN  proc' = [proc EXCEPT
                        !.z = z,
                        !.abcd = abcd,
                        !.contexts = {},
                        !.ranked = ranked,
                        !.universes = <<get_stock_universe(ranked, ZTracked(z)),
                                        get_stock_universe(ranked, AbcdTracked(abcd))>>]
    /\ calls' = [calls EXCEPT !.setup = @ + 1, !.held = held_positions]
    /\ interval' = 1
    /\ pc' = "p_interval"
    /\ UNCHANGED <<no_daily_bar, unit, sig, shadow, faults, allocated, frequency, hash_order,
                   day, tasks, intraday_datas, actions, close_actions, open_actions,
                   tradable_cash, n_open, applied, emitted, cash, positions, num_win,
                   num_lose, executed_actions, daily_equity>>

\* The Contexts on which ZScoreProcessor._open_position reaches its z-score
\* tests.
z_tested(contexts) ==
    {s \in contexts \cap proc.universes[Z_SCORE] :
        proc.z[s] = NotTracked /\ InEntryWindow(interval)}

\* The Contexts on which AbcdProcessor reaches its price tests: those of
\* _open_position, and the one of the take-profit 30 minutes after the entry.
abcd_tested(contexts) ==
    {s \in contexts \cap proc.universes[ABCD] :
        \/ proc.abcd[s] = Untracked /\ InEntryWindow(interval)
        \/ /\ proc.abcd[s].status = "active"
           /\ Now = <<proc.abcd[s].entry_time[1], proc.abcd[s].entry_time[2] + 6>>}

\* One pass of the while loop of _process: Contexts for the symbols of the
\* universes that have data, process_data of each processor on the Contexts
\* of its universe, then _process_actions.
ProcInterval ==
    /\ pc = "p_interval"
    /\ \E contexts \in SUBSET (proc.universes[Z_SCORE] \cup proc.universes[ABCD]),
          raises \in BOOLEAN :
       \E z_trade \in SUBSET z_tested(contexts), abcd_trade \in SUBSET abcd_tested(contexts) :
         LET price == [s \in Symbols |-> Close(s, day, interval)]
             z_result == [s \in contexts \cap proc.universes[Z_SCORE] |->
                             z_process_data(proc.z[s], Now, s \in z_trade)]
             abcd_result == [s \in contexts \cap proc.universes[ABCD] |->
                                abcd_process_data(proc.abcd[s], Now, s \in abcd_trade)]
             batch == ProcessorActions(hash_order, 1, Z_SCORE, z_result, price)
                      \o ProcessorActions(hash_order, 1, ABCD, abcd_result, price)
         IN  /\ emitted + Len(SelectSeq(batch, IsOpen)) <= MaxProcOpens
             /\ \E L \in {_process_actions(Ledger, batch, Now, raises)} :
               /\ emitted' = emitted + Len(SelectSeq(batch, IsOpen))
               /\ proc' = [proc EXCEPT
                     !.z = [s \in Symbols |-> IF s \in DOMAIN z_result
                                              THEN z_result[s].entry_time ELSE @[s]],
                     !.abcd = [s \in Symbols |-> IF s \in DOMAIN abcd_result
                                                 THEN abcd_result[s].position ELSE @[s]],
                     !.contexts = contexts,
                     !.emitted = [@ EXCEPT ![Z_SCORE] = Emit(@, z_result),
                                           ![ABCD] = Emit(@, abcd_result)]]
               /\ SetLedger(L)
               /\ actions' = batch
               /\ IF L.crashed THEN pc' = "p_crashed" /\ UNCHANGED interval
                  ELSE IF interval = MaxProcIntervals
                  THEN pc' = "p_log" /\ UNCHANGED interval
                  ELSE pc' = "p_interval" /\ interval' = interval + 1
    /\ UNCHANGED <<no_daily_bar, unit, sig, calls, shadow, faults, allocated, frequency,
                   hash_order, day, tasks, intraday_datas, close_actions, open_actions,
                   tradable_cash, n_open, applied, daily_equity>>

\* teardown on every processor and _log_day; run() then takes the next day.
ProcLogDay ==
    /\ pc = "p_log"
    /\ calls' = [calls EXCEPT !.teardown = @ + 1]
    /\ \E raises \in BOOLEAN :
         IF PositionTableRaises(positions, day, raises)
         THEN /\ pc' = "p_crashed"
              /\ UNCHANGED <<daily_equity, executed_actions, day>>
         ELSE /\ daily_equity' = Append(daily_equity, Equity(cash, positions, day, 1))
              /\ executed_actions' = <<>>
              /\ day' = day + 1
              /\ pc' = IF day = MaxDays THEN "p_done" ELSE "p_setup"
    /\ actions' = <<>>
    /\ UNCHANGED <<proc, no_daily_bar, unit, sig, shadow, faults, allocated, frequency,
                   hash_order, interval, tasks, intraday_datas, close_actions, open_actions,
                   tradable_cash, n_open, applied, emitted, cash, positions, num_win,
                   num_lose>>

NextProc ==
    \/ ProcSetupDay
    \/ ProcInterval
    \/ ProcLogDay

SpecProc == InitProc /\ [][NextProc]_vars

\* ---------------------------------------------------------------- claims
\* The step the resolver is about to take.
ClosePending == pc = "close" /\ close_actions # <<>>
OpenPending == pc = "open" /\ open_actions # <<>>

\* A close the spec says must be dropped: no Position of the symbol, a
\* BUY_TO_CLOSE on qty >= 0, a SELL_TO_CLOSE on qty <= 0.
InvalidClose(ps, a) ==
    \/ ~HasPosition(ps, a.symbol)
    \/ a.type = BUY_TO_CLOSE /\ RLe(Zero, _get_current_position(ps, a.symbol).qty)
    \/ a.type = SELL_TO_CLOSE /\ RLe(_get_current_position(ps, a.symbol).qty, Zero)

\* C1: close validity.  A BUY_TO_CLOSE on a Position with qty >= 0, a
\* SELL_TO_CLOSE on one with qty <= 0 (qty = 0 included) and a close on a
\* symbol without Position leave cash, positions, counters and trade log
\* unchanged.
C1_CloseValidity ==
    [][(ClosePending /\ InvalidClose(positions, Head(close_actions)))
          => UNCHANGED ledger_vars]_vars

\* C2: the positions list holds at most one Position per symbol.
C2_OnePositionPerSymbol ==
    \A i, j \in 1..Len(positions) :
        positions[i].symbol = positions[j].symbol => i = j

\* Two OPEN actions of one interval were merged into one Position of their
\* symbol, which holds a quantity at a finite entry price.
C2_Witness ==
    /\ pc = "open"
    /\ \E j, k \in 1..Len(applied) :
          /\ j < k
          /\ IsOpen(applied[j]) /\ IsOpen(applied[k])
          /\ applied[j].symbol = applied[k].symbol
          /\ tradable_cash # Zero
          /\ \E i \in 1..Len(positions) :
                /\ positions[i].symbol = applied[k].symbol
                /\ IsFinite(positions[i].entry_price)
                /\ positions[i].qty \notin {Zero, NaN}
                /\ positions[i].entry_time = Now

\* C3: within an interval every CLOSE is applied before any OPEN, and the
\* tradable cash the opens are sized with is the cash after the closes plus
\* the (negative) reserve of the shorts left by the closes.
C3_ClosesBeforeOpens ==
    /\ pc = "open" => close_actions = <<>>
    /\ \A i, j \in 1..Len(applied) :
          i < j => ~(IsOpen(applied[i]) /\ IsClose(applied[j]))
    /\ (pc = "open" /\ allocated = <<>>)
          => tradable_cash = RAdd(cash, ShortReserve(positions, 1))

\* An interval in which a close was executed and an open was applied after it.
C3_Witness ==
    /\ pc = "open"
    /\ \E i, j \in 1..Len(applied) :
          i < j /\ IsClose(applied[i]) /\ IsOpen(applied[j])

RECURSIVE Invested(_, _)
Invested(ps, ind) ==
    IF ind > Len(ps) THEN Zero
    ELSE RAdd(RMul(ps[ind].qty, ps[ind].entry_price), Invested(ps, ind + 1))

Capital(c, ps) == RAdd(c, Invested(ps, 1))

RealizedPnL(cp, a) ==
    RMul(RSub(RMul(a.price, SpreadAdjust(a.type)), cp.entry_price),
         RMul(cp.qty, a.percent))

\* C4: ledger conservation.  cash + sum(qty * entry_price) is unchanged by
\* every open, and changed by an executed close by exactly
\* (executed_price - entry_price) * removed_qty.
C4_LedgerConservation ==
    [][/\ OpenPending => Capital(cash', positions') = Capital(cash, positions)
       /\ (ClosePending /\ ~CloseSkipped(positions, Head(close_actions)))
             => Capital(cash', positions')
                  = RAdd(Capital(cash, positions),
                         RealizedPnL(_get_current_position(positions,
                                                           Head(close_actions).symbol),
                                     Head(close_actions)))]_vars

\* The open actions of the interval's deduplicated batch.
BatchOpens == SelectSeq(UniqueActions(actions), IsOpen)

RECURSIVE SumSeq(_, _)
SumSeq(xs, ind) == IF ind > Len(xs) THEN Zero ELSE RAdd(xs[ind], SumSeq(xs, ind + 1))

C6_AllocationClamped ==
    \A k \in 1..Len(allocated) :
        /\ RLe(Zero, allocated[k])
        /\ RLe(allocated[k], tradable_cash)

\* C7: partial close re-insertion.  An executed close of percent p on a
\* Position of quantity q leaves, when |q - q*p| > EPSILON, exactly one
\* Position of the symbol, of quantity q - q*p and the entry price and time
\* it had; otherwise none.  Closing 60% of 10 entered at 50 leaves 4 at 50.
PositionsOf(ps, symbol) == {i \in 1..Len(ps) : ps[i].symbol = symbol}

SixtyPercentOfTen ==
    ClosePosition([cash |-> Zero,
                   positions |-> <<Position("A", Int2R(10), Int2R(50), <<1, 1>>)>>,
                   num_win |-> 0, num_lose |-> 0, executed |-> <<>>,
                   crashed |-> FALSE],
                  Action("A", SELL_TO_CLOSE, <<3, 5>>, Int2R(60), 1),
                  <<1, 2>>, FALSE).positions

C7_PartialClose ==
    [][/\ SixtyPercentOfTen = <<Position("A", Int2R(4), Int2R(50), <<1, 1>>)>>
       /\ (ClosePending /\ ~CloseSkipped(positions, Head(close_actions)))
             => LET a == Head(close_actions)
                    cp == _get_current_position(positions, a.symbol)
                    left == RSub(cp.qty, RMul(cp.qty, a.percent))
                IN  IF RLt(<<1, EPSILON_DEN>>, RAbs(left))
                    THEN /\ Cardinality(PositionsOf(positions', a.symbol)) = 1
                         /\ _get_current_position(positions', a.symbol)
                              = Position(a.symbol, left, cp.entry_price, cp.entry_time)
                    ELSE PositionsOf(positions', a.symbol) = {}]_vars

\* Half of a Position entered in an earlier interval has just been closed.
C7_Witness ==
    /\ pc = "close"
    /\ applied # <<>>
    /\ LET a == applied[Len(applied)]
       IN  /\ IsClose(a)
           /\ a.percent = <<1, 2>>
           /\ HasPosition(positions, a.symbol)
           /\ _get_current_position(positions, a.symbol).entry_time # Now
           /\ _get_current_position(positions, a.symbol).qty # Zero

\* C8: determinism.  Two runs of the engine on the same date range,
\* processors and price history hold the same daily equity sequence and the
\* same rows in the trade log, whatever the iteration order of the symbol
\* sets and stock universe lists in each run.
C8_Determinism ==
    /\ daily_equity = shadow.daily_equity
    /\ executed_actions = shadow.executed

\* The first action of the batch on the symbol and type of a.
FirstOfKey(batch, a) ==
    batch[CHOOSE i \in 1..Len(batch) :
              /\ SameKey(batch[i], a)
              /\ \A j \in 1..(i - 1) : ~SameKey(batch[j], a)]

AppliedOfKey(a) == {i \in 1..Len(applied) : SameKey(applied[i], a)}

Conflicts == {a \in {actions[i] : i \in 1..Len(actions)} :
                 \E j \in 1..Len(actions) :
                     SameKey(actions[j], a) /\ actions[j].processor # a.processor}

ResolutionDone == pc = "open" /\ open_actions = <<>>

IntervalPcs == {"interval", "process_actions", "close", "open", "log_day"}

C10_PrefetchBarrier ==
    (pc \in IntervalPcs /\ ~all_processor_c2c)
        => \A s \in Symbols : /\ tasks[s] \in TaskOutcomes
                              /\ intraday_datas[s] = tasks[s]

\* The first interval of the second day is about to run.
C10_Witness ==
    /\ pc = "interval"
    /\ interval = 1
    /\ day = 2
    /\ \A s \in Symbols : tasks[s] \in TaskOutcomes

\* ---------------------------------------------------------------- C11

PrefetchPcs == {"collect", "shutdown", "shutdown_raised"}

\* C11: a prefetch task that fails or yields no data does not abort the
\* day: the results of the day's other tasks are still collected, the pool
\* is shut down and the interval loop starts, and in the loop a symbol
\* without data gets no Context while the other symbols keep theirs.
C11_FetchFailureIsolated ==
    [][/\ pc \in PrefetchPcs => pc' \in {"collect", "shutdown", "interval"}
       /\ pc' = "interval" =>
            \A s \in Symbols :
                (tasks'[s] = "data") <=> (intraday_datas'[s] = "data")]_vars

\* ---------------------------------------------------------------- C14

\* C14: teardown is called exactly once per day on every processor, after
\* the day's last interval and before the next day's setup: at every day
\* boundary and at the end of the run the number of teardown calls is the
\* number of days processed.
C14_TeardownOncePerDay ==
    pc \in {"setup", "done"} => calls.teardown = day - 1

\* ---------------------------------------------------------------- C15

DayPcs == {"universe", "submit", "collect", "shutdown", "shutdown_raised",
           "c2c", "interval", "process_actions", "close", "open", "log_day"}

\* C15: on both paths setup is called exactly once per day on every
\* processor, with the positions held at that moment, before the stock
\* universe is queried, before any prefetch task is submitted and before
\* any process_data call of the day.
C15_SetupOncePerDay ==
    /\ pc = "setup" => calls.setup = day - 1
    /\ pc \in DayPcs => calls.setup = day
    /\ pc \in {"run_close", "done"} => calls.setup = MaxDays
    /\ pc = "universe" => calls.held = positions

\* The second day of a close-to-close run starts with a position held, and
\* setup has just been handed it.
C15_Witness ==
    /\ pc = "universe"
    /\ all_processor_c2c
    /\ day = 2
    /\ positions # <<>>
    /\ calls.setup = 2
    /\ calls.held = positions

\* ---------------------------------------------------------------- C12

\* C12: whenever SIGINT arrives, the ledger the final statistics are
\* computed from, and the process exits with, has every action either
\* fully applied or not applied at all: it is the ledger before or the
\* ledger after the action the signal fell into.
C12_NoTornLedgerAtExit ==
    sig.reported => sig.atomic

\* ---------------------------------------------------------------- C13

\* C13: when SIGINT arrives while prefetch tasks are pending, the pending
\* tasks are drained first, the report is generated after that, and the
\* process exits only after the report: no task was pending when the
\* report was generated, none is when the process has exited, and an
\* exited process has reported.
C13_DrainReportExit ==
    /\ sig.reported => sig.pending = {}
    /\ pc = "exited" => sig.reported /\ Pending = {}

\* ---------------------------------------------------------------- C19

SplitDone == unit.kind = "split" /\ unit.done

Rows == 1..Len(unit.intraday_lookback)

OHLCDivided(f) ==
    \A i \in Rows :
        /\ unit.adjusted[i].Open = RDiv(unit.intraday_lookback[i].Open, f)
        /\ unit.adjusted[i].High = RDiv(unit.intraday_lookback[i].High, f)
        /\ unit.adjusted[i].Low = RDiv(unit.intraday_lookback[i].Low, f)
        /\ unit.adjusted[i].Close = RDiv(unit.intraday_lookback[i].Close, f)

ExampleCase(prior_close, day_open) ==
    /\ SplitDone
    /\ unit.interday_lookback[1].Close = Int2R(prior_close)
    /\ unit.intraday_lookback[1].Open = Int2R(day_open)
    /\ unit.intraday_lookback[1].Close = Int2R(60)
    /\ unit.intraday_lookback[1].Volume = Int2R(1000)

ContextsDone == unit.kind = "contexts" /\ unit.done

\* The stored interday bars of the symbol that are strictly before the day,
\* when the symbol and the day are in the store.
InterdayAvailable(s) ==
    /\ s \in DOMAIN unit.interday_data
    /\ \E i \in 1..Len(unit.interday_data[s]) : unit.interday_data[s][i].t = unit.day
    /\ \E i \in 1..Len(unit.interday_data[s]) : unit.interday_data[s][i].t < unit.day

\* The intraday data of the symbol hold the bar of the current interval.
IntradayAvailable(s) ==
    \E i \in 1..Len(unit.intraday_datas[s]) :
        unit.intraday_datas[s][i].t = unit.current_interval_start

\* C17: on both paths no Context is constructed for a symbol whose interday
\* lookback (on the interval path also the intraday lookback) is missing or
\* empty; the symbol is skipped and the other symbols still get theirs.
C17_NoContextWithoutData ==
    ContextsDone =>
        \A s \in Symbols :
            unit.contexts[s].built <=>
                /\ InterdayAvailable(s)
                /\ unit.path = "interval" => IntradayAvailable(s)

\* ---------------------------------------------------------------- C18

\* C18: a Context built for day D and interval start t carries an interday
\* lookback holding only bars of days strictly before D and an intraday
\* lookback holding exactly the bars stamped at or before t, the bar of t
\* included and no later one; current_price is the close of the last bar
\* of that intraday lookback.  (A close-to-close Context has no interval
\* and no intraday lookback: its interday lookback is held to the same.)
C18_NoLookAhead ==
    ContextsDone =>
        \A s \in Symbols :
            LET c == unit.contexts[s]
            IN  c.built =>
                  /\ \A i \in 1..Len(c.interday_lookback) :
                        c.interday_lookback[i].t < unit.day
                  /\ unit.path = "interval" =>
                        LET bars == c.intraday_lookback.bars
                            AtOrBefore(b) == b.t <= unit.current_interval_start
                        IN  /\ ~c.intraday_lookback.is_none
                            /\ Index(bars) =
                                 Index(SelectSeq(unit.intraday_datas[s], AtOrBefore))
                            /\ bars[Len(bars)].t = unit.current_interval_start
                            /\ c.current_price = bars[Len(bars)].Close

\* A Context built in the middle of the stored history: the store holds
\* the bar of the day itself and a later five-minute bar, and neither is
\* in the lookbacks.
C18_Witness ==
    /\ ContextsDone
    /\ unit.path = "interval"
    /\ unit.day = 2
    /\ unit.current_interval_start = 2
    /\ unit.contexts["A"].built
    /\ Len(unit.interday_data["A"]) = 3
    /\ Len(unit.intraday_datas["A"]) = 3
    /\ Len(unit.contexts["A"].interday_lookback) = 1
    /\ Len(unit.contexts["A"].intraday_lookback.bars) = 2
    /\ unit.contexts["A"].current_price = Int2R(60)

\* ---------------------------------------------------------------- C16

BatchDone == unit.kind = "batch" /\ unit.done

\* The type is none of the four, or the percent is outside (0, 1].
Malformed(a) ==
    \/ a.type \notin ActionTypes
    \/ ~RLt(Zero, a.percent)
    \/ RLt(One, a.percent)

\* C16: an Action whose type is none of the four or whose percent is
\* outside (0, 1] is rejected with a fatal error by action resolution: the
\* resolution of a batch that holds one fails, and the ledger is as it was
\* (the action is neither dropped in silence nor applied).
C16_MalformedActionFatal ==
    BatchDone =>
        ((\E i \in 1..Len(unit.batch) : Malformed(unit.batch[i])) =>
            /\ unit.result.crashed
            /\ Core(unit.result) = Core(unit.ledger))

\* ---------------------------------------------------------------- C21

DrawdownDone == unit.kind = "drawdown" /\ unit.done

\* max(v_1 .. v_i)
PeakUpTo(values, i) ==
    CHOOSE m \in {values[j] : j \in 1..i} : \A j \in 1..i : RLe(values[j], m)

\* v_i / max(v_1 .. v_i) - 1
DrawdownAt(values, i) == RSub(RDiv(values[i], PeakUpTo(values, i)), One)

\* C21: for a non-empty sequence of positive values the drawdown is the
\* minimum over the positions i of v_i / max(v_0..v_i) - 1; it is never
\* positive, it is 0 for a non-decreasing sequence, and for
\* [1, 1.1, 0.9, 1.05] it is 0.9/1.1 - 1.
C21_Drawdown ==
    DrawdownDone =>
        LET values == unit.values
            N == Len(values)
        IN  /\ \E i \in 1..N : unit.drawdown = DrawdownAt(values, i)
            /\ \A i \in 1..N : RLe(unit.drawdown, DrawdownAt(values, i))
            /\ RLe(unit.drawdown, Zero)
            /\ (\A i \in 1..(N - 1) : RLe(values[i], values[i + 1])) =>
                   unit.drawdown = Zero
            /\ values = <<One, <<11, 10>>, <<9, 10>>, <<21, 20>>>> =>
                   unit.drawdown = RSub(RDiv(<<9, 10>>, <<11, 10>>), One)

\* The example sequence: the drawdown is -2/11, taken at 0.9 under the
\* peak 1.1.
C21_Witness ==
    /\ DrawdownDone
    /\ unit.values = <<One, <<11, 10>>, <<9, 10>>, <<21, 20>>>>
    /\ unit.drawdown = <<-2, 11>>

\* ---------------------------------------------------------------- C29

SummaryDone == unit.kind = "summary" /\ unit.done

RECURSIVE Compound(_, _, _)
\* The yearly gains compounded: the product of the slices' growth factors.
Compound(equity, slices, ind) ==
    IF ind > Len(slices) THEN One
    ELSE RMul(SliceGain(equity, slices[ind]), Compound(equity, slices, ind + 1))

\* C29: the yearly slices partition the simulated days: a slice ends at
\* the last simulated day before the first day of a later year (or at the
\* run's last day), every day's return is counted in exactly one slice, and
\* the yearly gains compound to the total gain, also when the start date
\* lies in an earlier year than the first market day.
C29_YearlyPartition ==
    SummaryDone =>
        LET N == Len(unit.years)
            slices == unit.slices
        IN  /\ \A j \in 1..Len(slices) :
                 \/ slices[j].last = N - 1
                 \/ /\ unit.years[slices[j].last + 1] <= slices[j].year
                    /\ unit.years[slices[j].last + 2] > slices[j].year
            /\ \A k \in 0..(N - 1) :
                 Cardinality({j \in 1..Len(slices) :
                                 slices[j].start <= k /\ k <= slices[j].last}) = 1
            /\ Compound(unit.daily_equity, slices, 1) =
                 RDiv(unit.daily_equity[N + 1], unit.daily_equity[1])

\* ---------------------------------------------------------------- C30

GateDone == unit.kind = "gate" /\ unit.done

\* The frequency is due in the interval: FIVE_MIN always, CLOSE_TO_OPEN in
\* the first and the last interval, CLOSE_TO_CLOSE in the last.
Due(f, i, n) ==
    \/ f = FIVE_MIN
    \/ f = CLOSE_TO_OPEN /\ (i = 1 \/ i = n)
    \/ f = CLOSE_TO_CLOSE /\ i = n

\* C28: on the interval path a processor is invoked in an interval exactly
\* when its frequency is due there, and is then offered the Contexts of its
\* whole universe; Contexts are built only for symbols of a processor whose
\* frequency is due.
C28_FrequencyGating ==
    GateDone =>
        /\ DOMAIN unit.offered =
             {p \in Processors : Due(unit.frequency[p], unit.i, unit.n)}
        /\ \A p \in DOMAIN unit.offered : unit.offered[p] = unit.universes[p]
        /\ \A s \in unit.contexts :
             \E p \in Processors : /\ s \in unit.universes[p]
                                   /\ Due(unit.frequency[p], unit.i, unit.n)

\* The last of three intervals, with a CLOSE_TO_CLOSE processor that alone
\* asks for B: it is invoked and B gets a Context.
C28_Witness ==
    /\ GateDone
    /\ unit.n = 3
    /\ unit.i = 3
    /\ unit.frequency = <<FIVE_MIN, CLOSE_TO_CLOSE>>
    /\ unit.universes = <<{"A"}, {"B"}>>
    /\ DOMAIN unit.offered = {1, 2}
    /\ unit.contexts = {"A", "B"}

\* ---------------------------------------------------------------- C23

Resolving == pc \in {"close", "open"}

\* C23: cash, the positions and the win and lose counters change only in a
\* step of _close_positions or _open_positions that takes an action off the
\* batch; setup, universe loading, the prefetch and its workers, context
\* building, the end of the day and _close leave them as they are.
C23_LedgerFrame ==
    [][<<cash, positions, num_win, num_lose>>' # <<cash, positions, num_win, num_lose>>
         => /\ Resolving
            /\ \/ close_actions # <<>> /\ close_actions' = Tail(close_actions)
               \/ open_actions # <<>> /\ open_actions' = Tail(open_actions)]_vars

\* The second day's prefetch runs, with a worker still to finish, on a
\* ledger the first day has traded on.
C23_Witness ==
    /\ day = 2
    /\ pc = "collect"
    /\ \E s \in Symbols : tasks[s] = "pending"
    /\ positions # <<>>
    /\ cash # One
    /\ num_win + num_lose > 0

\* ---------------------------------------------------------------- C24

Counted == num_win + num_lose

\* The realized return of a row of the trade log: the executed price over
\* the entry price, less one, with the sign turned for a short exit.
RealizedReturn(row) ==
    LET executed_price ==
            IF row.side = "long" THEN RMul(row.exit_price, RSub(One, BID_ASK_SPREAD))
            ELSE RMul(row.exit_price, RAdd(One, BID_ASK_SPREAD))
        ret == RSub(RDiv(executed_price, row.entry_price), One)
    IN  IF row.side = "short" THEN RNeg(ret) ELSE ret

\* C24: a step counts a win or a loss exactly when it records a close in the
\* trade log; it then counts one of the two, a win for a positive realized
\* return and a loss for a negative one; a dropped close counts nothing.
\* So the counters add up to the closes recorded.
C24_WinLoseAccounting ==
    [][/\ (Counted' # Counted \/ Len(executed_actions') > Len(executed_actions))
           => /\ Len(executed_actions') = Len(executed_actions) + 1
              /\ SubSeq(executed_actions', 1, Len(executed_actions)) = executed_actions
              /\ Counted' = Counted + 1
              /\ num_win' \in {num_win, num_win + 1}
              /\ num_lose' \in {num_lose, num_lose + 1}
              /\ LET ret == RealizedReturn(executed_actions'[Len(executed_actions')])
                 IN  /\ RLt(Zero, ret) => num_win' = num_win + 1
                     /\ RLt(ret, Zero) => num_lose' = num_lose + 1
       /\ (ClosePending /\ CloseSkipped(positions, Head(close_actions)))
           => /\ Counted' = Counted
              /\ executed_actions' = executed_actions]_vars

\* A short exit below the entry price has been counted as a win.
C24_Witness ==
    /\ num_win = 1
    /\ num_lose = 0
    /\ Len(executed_actions) = 1
    /\ executed_actions[1].side = "short"
    /\ RLt(Zero, RealizedReturn(executed_actions[1]))

\* ---------------------------------------------------------------- C25

\* The price a close is executed at: the action's price less the spread for
\* a sell, plus the spread for a buy.
ExecutedPrice(a) ==
    IF a.type = SELL_TO_CLOSE
    THEN RSub(a.price, RMul(a.price, BID_ASK_SPREAD))
    ELSE RAdd(a.price, RMul(a.price, BID_ASK_SPREAD))

\* C25: a close that is not dropped changes the cash by the executed price
\* times the quantity removed, position.qty * action.percent with its sign;
\* the cash after it is never above what the action's own price would have
\* left, and closing part of a short lowers the cash.
C25_CloseExecution ==
    [][(ClosePending /\ ~CloseSkipped(positions, Head(close_actions)))
          => LET a == Head(close_actions)
                 removed_qty == RMul(_get_current_position(positions, a.symbol).qty,
                                     a.percent)
             IN  /\ cash' = RAdd(cash, RMul(ExecutedPrice(a), removed_qty))
                 /\ RLe(cash', RAdd(cash, RMul(a.price, removed_qty)))
                 /\ RLt(removed_qty, Zero) => RLt(cash', cash)
                 /\ RLt(Zero, removed_qty) => RLt(cash, cash')]_vars

\* Half of a short has just been bought back.
C25_Witness ==
    /\ pc = "close"
    /\ executed_actions # <<>>
    /\ LET row == executed_actions[Len(executed_actions)]
       IN  /\ row.side = "short"
           /\ RLt(row.qty, Zero)
           /\ \E i \in 1..Len(positions) :
                 /\ positions[i].symbol = row.symbol
                 /\ positions[i].qty = row.qty

\* ---------------------------------------------------------------- C26

IsShort(p) == RLt(p.qty, Zero)

\* entry_price * qty * (1 + SHORT_RESERVE_RATIO) of every short Position.
Reserves(ps) ==
    LET shorts == SelectSeq(ps, IsShort)
    IN  [i \in 1..Len(shorts) |->
            RMul(RMul(shorts[i].entry_price, shorts[i].qty),
                 RAdd(One, Int2R(SHORT_RESERVE_RATIO)))]

\* C26: the tradable cash of an interval's open phase is the cash left by the
\* interval's closes plus the reserve terms of the short Positions alone; it
\* is never above the cash; it is set once, before the first open, and the
\* opens of the interval do not change it.
C26_TradableCash ==
    [][/\ (pc = "close" /\ pc' = "open")
           => /\ tradable_cash' = RAdd(cash, SumSeq(Reserves(positions), 1))
              /\ RLe(tradable_cash', cash)
       /\ (pc = "open" /\ open_actions # <<>>)
           => tradable_cash' = tradable_cash]_vars

\* ---------------------------------------------------------------- C27

\* The quantity an open action buys or sells short with its allocation.
OpenQty(a, allocated_cash) ==
    IF a.type = SELL_TO_OPEN THEN RNeg(RDiv(allocated_cash, a.price))
    ELSE RDiv(allocated_cash, a.price)

\* The symbol has exactly one Position, of this quantity and entry price.
OnePosition(ps, symbol, qty, entry_price) ==
    /\ Cardinality(PositionsOf(ps, symbol)) = 1
    /\ \A i \in PositionsOf(ps, symbol) : /\ ps[i].qty = qty
                                          /\ ps[i].entry_price = entry_price

\* C27: an open action on a symbol without a Position leaves one Position of
\* quantity allocated_cash / action.price (negated for SELL_TO_OPEN) at the
\* action's price; on a symbol with a Position it leaves one Position of the
\* summed quantity at the quantity-weighted average entry price; either way
\* the cash goes down by action.price * qty.
C27_OpenMerge ==
    [][OpenPending
          => LET a == Head(open_actions)
                 qty == OpenQty(a, allocated'[Len(allocated')])
                 old == _get_current_position(positions, a.symbol)
             IN  /\ cash' = RSub(cash, RMul(a.price, qty))
                 /\ IF ~HasPosition(positions, a.symbol)
                    THEN OnePosition(positions', a.symbol, qty, a.price)
                    ELSE OnePosition(positions', a.symbol, RAdd(old.qty, qty),
                                     RDiv(RAdd(RMul(old.entry_price, old.qty),
                                               RMul(a.price, qty)),
                                          RAdd(old.qty, qty)))]_vars

\* ---------------------------------------------------------------- C22

\* qty times the day's close of every Position, or times its entry price
\* when the symbol has no daily bar of the day.
MarkedValues(ps, d) ==
    [i \in 1..Len(ps) |->
        RMul(ps[i].qty, IF <<ps[i].symbol, d>> \in no_daily_bar
                        THEN ps[i].entry_price
                        ELSE Close(ps[i].symbol, d, IntervalsPerDay))]

\* C22: daily_equity starts with 1 and has one element more than the days
\* completed; only the end of a day changes it, on either day path and with
\* or without trades and positions, and what it appends is the cash plus the
\* marked value of every Position.
C22_DailyEquity ==
    /\ [](daily_equity[1] = One /\ Len(daily_equity) = day)
    /\ [][/\ pc # "log_day" => daily_equity' = daily_equity
          /\ (pc = "log_day" /\ pc' # "crashed")
               => /\ day' = day + 1
                  /\ daily_equity' =
                       Append(daily_equity,
                              RAdd(cash, SumSeq(MarkedValues(positions, day), 1)))]_vars

\* The last day has ended on a Position in B, which has no daily bar of that
\* day and was entered at another price than the one its close would be.
C22_Witness ==
    /\ pc = "run_close"
    /\ Len(daily_equity) = MaxDays + 1
    /\ <<"B", MaxDays>> \in no_daily_bar
    /\ <<"A", MaxDays>> \notin no_daily_bar
    /\ \E i \in 1..Len(positions) :
          /\ positions[i].symbol = "B"
          /\ positions[i].qty # Zero
          /\ positions[i].entry_price # DayClose("B", MaxDays)

\* ---------------------------------------------------------------- C35

\* C35: every Position of the ledger has a quantity of more than EPSILON in
\* absolute value; an open sized with no tradable cash and a merge whose
\* quantities cancel leave no Position of quantity 0.
C35_NoZeroQuantity ==
    \A i \in 1..Len(positions) : GtEpsilon(positions[i].qty)

\* ---------------------------------------------------------------- C36

\* C36: every Position of the ledger has a finite entry price above 0, and
\* no open ends the run on a division by old_qty + qty = 0.
C36_EntryPriceDefined ==
    /\ \A i \in 1..Len(positions) : /\ IsFinite(positions[i].entry_price)
                                    /\ RLt(Zero, positions[i].entry_price)
    /\ ~(pc = "crashed" /\ applied # <<>> /\ IsOpen(applied[Len(applied)]))

\* ---------------------------------------------------------------- C34

\* The closes of the interval's batch on the symbol that reached the ledger.
AppliedCloses(symbol) ==
    {i \in 1..Len(applied) : IsClose(applied[i]) /\ applied[i].symbol = symbol}

\* C34: of the close actions of one interval's batch at most one per symbol
\* changes the ledger.
C34_OneClosePerSymbol ==
    \A symbol \in Symbols : Cardinality(AppliedCloses(symbol)) <= 1

\* The batch held a SELL_TO_CLOSE and a BUY_TO_CLOSE on one symbol; the
\* closes are through, one of the two was applied and part of the Position
\* is still held.
C34_Witness ==
    /\ pc = "close"
    /\ close_actions = <<>>
    /\ \E symbol \in Symbols :
          /\ \E i, j \in 1..Len(actions) :
                /\ actions[i].symbol = symbol /\ actions[i].type = SELL_TO_CLOSE
                /\ actions[j].symbol = symbol /\ actions[j].type = BUY_TO_CLOSE
          /\ Cardinality(AppliedCloses(symbol)) = 1
          /\ HasPosition(positions, symbol)

\* ---------------------------------------------------------------- C37

\* The order of a run: the intervals of a day are taken one after the other
\* from the first, each with one action resolution; the days are taken one
\* after the other, a day on the interval path only after its last interval;
\* the final close comes after the last day and nothing follows it.
RunInOrder ==
    [][/\ interval' # interval
          => \/ interval' = 0 /\ pc = "setup"
             \/ interval' = interval + 1 /\ interval < IntervalsPerDay
                   /\ pc \in {"shutdown", "open"}
             \/ all_processor_c2c /\ pc = "c2c" /\ interval' = IntervalsPerDay
       /\ pc' = "process_actions" => pc \in {"interval", "c2c"} /\ actions = <<>>
       /\ pc = "interval" => pc' = "process_actions" /\ interval' = interval
       /\ day' # day
          => /\ day' = day + 1
             /\ pc = "log_day"
             /\ interval = IntervalsPerDay
       /\ pc' = "done" => pc = "run_close" /\ day = MaxDays + 1
                          /\ calls'.teardown = calls.teardown + 1
       /\ pc # "done"]_vars

\* C37: every run takes its intervals and days in order, each once, and
\* does not stop before the final close.
C37_RunCompletes == RunInOrder /\ [](pc # "crashed")

\* C33: on every day and for both processors, the stock universe loaded for
\* the day contains every symbol the processor tracks, also one that is not
\* in the day's ranked universe.
C33_ExitSignalContinuity ==
    pc \in {"p_interval", "p_log", "p_crashed"} =>
        /\ ZTracked(proc.z) \subseteq proc.universes[Z_SCORE]
        /\ AbcdTracked(proc.abcd) \subseteq proc.universes[ABCD]

\* On the second day A has left the ranked universe, and both processors,
\* which opened it on the first day, have been offered its Context and have
\* emitted the close.
C33_Witness ==
    /\ pc = "p_interval"
    /\ day = 2
    /\ "A" \notin proc.ranked
    /\ "A" \in proc.contexts
    /\ proc.emitted[Z_SCORE]["A"] = <<BUY_TO_OPEN, SELL_TO_CLOSE>>
    /\ proc.emitted[ABCD]["A"] = <<BUY_TO_OPEN, SELL_TO_CLOSE>>
    /\ actions # <<>>

Alternating(log) ==
    \A i \in 1..Len(log) : log[i] = (IF i % 2 = 1 THEN BUY_TO_OPEN ELSE SELL_TO_CLOSE)

\* The time `now` is at least one 5-minute interval after the entry.
FiveMinutesOn(entry_time, now) ==
    \/ now[1] > entry_time[1]
    \/ now[1] = entry_time[1] /\ now[2] > entry_time[2]

ZEmits(symbol, type) ==
    proc'.emitted[Z_SCORE][symbol] = Append(proc.emitted[Z_SCORE][symbol], type)

\* C38: for each symbol the ZScoreProcessor emits BUY_TO_OPEN and
\* SELL_TO_CLOSE in strict alternation, starting with BUY_TO_OPEN; it buys
\* only a symbol it does not track and sells only one it tracks, never
\* before entry_time + 5 minutes, and it sells at the first Context of the
\* symbol at or after entry_time + 5 minutes, on the day of the entry or on
\* a later one.
C38_ZScoreAlternation ==
    [][pc = "p_interval" =>
         \A symbol \in Symbols :
           /\ \/ ZEmits(symbol, BUY_TO_OPEN)
              \/ ZEmits(symbol, SELL_TO_CLOSE)
              \/ proc'.emitted[Z_SCORE][symbol] = proc.emitted[Z_SCORE][symbol]
           /\ Alternating(proc'.emitted[Z_SCORE][symbol])
           /\ ZEmits(symbol, BUY_TO_OPEN) => proc.z[symbol] = NotTracked
           /\ ZEmits(symbol, SELL_TO_CLOSE) =>
                /\ proc.z[symbol] # NotTracked
                /\ FiveMinutesOn(proc.z[symbol], Now)
           /\ ( /\ symbol \in proc'.contexts
                /\ proc.z[symbol] # NotTracked
                /\ FiveMinutesOn(proc.z[symbol], Now) ) => ZEmits(symbol, SELL_TO_CLOSE)]_vars

\* The ZScoreProcessor bought A on the first day, sold it at the first
\* Context of the second day and has bought it again.
C38_Witness ==
    /\ day = 2
    /\ proc.emitted[Z_SCORE]["A"] = <<BUY_TO_OPEN, SELL_TO_CLOSE, BUY_TO_OPEN>>
    /\ proc.z["A"] = <<2, 2>>
    /\ \E i \in 1..Len(executed_actions) :
         /\ executed_actions[i].symbol = "A"
         /\ executed_actions[i].exit_time = <<2, 1>>

AbcdEmits(symbol, type) ==
    proc'.emitted[ABCD][symbol] = Append(proc.emitted[ABCD][symbol], type)

AbcdSilent(symbol) == proc'.emitted[ABCD][symbol] = proc.emitted[ABCD][symbol]

\* C39: for the AbcdProcessor a symbol goes from untracked to active with a
\* BUY_TO_OPEN, from active to inactive with a SELL_TO_CLOSE and from
\* inactive to untracked only at a setup; an active or inactive symbol gets
\* no BUY_TO_OPEN, an inactive one no action at all, and setup removes the
\* inactive entries and keeps the active ones.
C39_AbcdLifecycle ==
    [][\A symbol \in Symbols :
         LET before == proc.abcd[symbol]
             after == proc'.abcd[symbol]
         IN  /\ pc = "p_interval" =>
                  /\ before.status = "untracked" =>
                       \/ after = before /\ AbcdSilent(symbol)
                       \/ /\ after = [status |-> "active", entry_time |-> Now]
                          /\ AbcdEmits(symbol, BUY_TO_OPEN)
                  /\ before.status = "active" =>
                       \/ after = before /\ AbcdSilent(symbol)
                       \/ /\ after = [before EXCEPT !.status = "inactive"]
                          /\ AbcdEmits(symbol, SELL_TO_CLOSE)
                  /\ before.status = "inactive" => after = before /\ AbcdSilent(symbol)
                  /\ Alternating(proc'.emitted[ABCD][symbol])
             /\ pc = "p_setup" =>
                  /\ AbcdSilent(symbol)
                  /\ before.status = "inactive" => after.status = "untracked"
                  /\ before.status # "inactive" => after = before
             /\ pc = "p_log" => after = before /\ AbcdSilent(symbol)]_vars

\* On the second day: A was opened and closed on the first day and its
\* entry was removed by the setup, B was opened on the first day and is
\* still active.
C39_Witness ==
    /\ pc = "p_interval"
    /\ day = 2
    /\ proc.emitted[ABCD]["A"] = <<BUY_TO_OPEN, SELL_TO_CLOSE>>
    /\ proc.abcd["A"].status = "untracked"
    /\ proc.emitted[ABCD]["B"] = <<BUY_TO_OPEN>>
    /\ proc.abcd["B"].status = "active"
    /\ proc.abcd["B"].entry_time[1] = 1

ZScoreHolds(symbol) == proc.z[symbol] # NotTracked
AbcdHolds(symbol) == proc.abcd[symbol].status = "active"

\* C32: at the start of every interval, a symbol that the ZScoreProcessor
\* tracks, or that the AbcdProcessor tracks as active, has a Position in
\* the ledger.
C32_TrackingMatchesLedger ==
    pc = "p_interval" =>
        \A symbol \in Symbols :
            (ZScoreHolds(symbol) \/ AbcdHolds(symbol)) => HasPosition(positions, symbol)

\* ---------------------------------------------------------------- C31

\* C31: the interday lookback a call returns for a (day, symbol) pair, from
\* the cache or computed again after an eviction, is the slice of the
\* series loaded at the start of the run, and so is every cached result;
\* the store is the one that was loaded.
C31_MemoCoherence ==
    unit.kind = "memo" =>
        /\ unit.interday_data = unit.loaded
        /\ unit.got # NoLookup =>
              unit.got.value =
                _prepare_interday_lookback(unit.loaded, unit.got.key[1], unit.got.key[2])
        /\ \A i \in 1..Len(unit.cache) :
              unit.cache[i].value =
                _prepare_interday_lookback(unit.loaded, unit.cache[i].key[1],
                                           unit.cache[i].key[2])

\* After a call has recomputed an evicted result, a call on a later day is
\* served from the cache with a lookback that is not empty.
C31_Witness ==
    /\ unit.kind = "memo"
    /\ unit.refilled
    /\ unit.got.hit
    /\ unit.got.key[1] > 1
    /\ ~unit.got.value.is_none
    /\ Len(unit.got.value.bars) >= 1

====
